---- MODULE Spec2Model ----
(***************************************************************************)
(* RequestKit: the request pipeline of one client.                         *)
(*                                                                         *)
(*   createClient().request  (core/client.ts)                              *)
(*     -> applyRequestInterceptors   (interceptors/request.ts)             *)
(*     -> cancelable / applyTimeout  (features/cancel.ts, timeout.ts)      *)
(*     -> withRetry(executeRequest)  (features/retry.ts)                   *)
(*          executeRequest: fetch -> applyResponseInterceptors ->          *)
(*          status validation -> processResponse, and on failure           *)
(*          applyErrorInterceptors  (interceptors/response.ts)             *)
(*                                                                         *)
(* One call is in progress at a time; every await of the code is a         *)
(* boundary between two actions.  User supplied functions (interceptor     *)
(* fulfilled / rejected functions, retryCondition) and the platform fetch   *)
(* are the environment: each invocation picks one of its possible outcomes. *)
(***************************************************************************)
EXTENDS Integers, Sequences, FiniteSets, TLC

\* ------------------------------------------------------------------ bounds
\* registrations one interceptor manager accepts in a run (caps nextId)
MaxIds == 2
\* largest retry limit a call is started with
MaxLimit == 4

\* ----------------------------------------------------------------- helpers
Reverse(s) == [i \in 1..Len(s) |-> s[Len(s) + 1 - i]]

Min(a, b) == IF a < b THEN a ELSE b

RECURSIVE Pow2(_)
Pow2(n) == IF n <= 0 THEN 1 ELSE 2 * Pow2(n - 1)

\* status value of an error that carries no response (error.status === undefined)
NoStatus == 0

VARIABLES
  reqHandlers,   \* request manager's Map, in insertion order: <<[id, fulfilled, rejected]>>
  reqNextId,     \* request manager's nextId
  resHandlers,   \* response manager's Map
  resNextId,     \* response manager's nextId
  pc,            \* where the call in progress stands
  opts,          \* options of the call in progress (method, retry policy, signal options)
  config,        \* internalConfig / currentConfig: the Descriptor
  handlers,      \* the handler array applyRequestInterceptors iterates over
  reversed,      \* the reversed handler array of the running response / error dispatch
  idx,           \* position of the running dispatch in its array
  response,      \* currentResponse of the attempt
  error,         \* the error variable of applyErrorInterceptors
  caught,        \* the error executeRequest caught (thrown to withRetry if unrecovered)
  requestError,  \* the error withRetry caught from the last attempt
  attempt,       \* withRetry's attempt counter
  sent,          \* URLs the transport was invoked with during this call
  waitLeft,      \* time units left of the retry delay timer
  signal,        \* internalConfig.signal: [aborted, reason]
  userAborted,   \* the caller's own AbortController has fired
  result,        \* the call's promise: [state, value]
  reqLog,        \* request interceptor functions invoked by this call
  log,           \* response interceptor functions invoked since the last transport send
  retryLog,      \* what the catch block of withRetry did for each failed attempt
  hookLog,       \* calls of the client's hooks made by this call: <<[hook, att]>>
  tokenCanceled, \* cancel() of the CancelToken source of the call has been invoked
  derived,       \* the client made of this one by clone() / extend(), if any
  defaults       \* the client's config: which hooks and transform it was created with

VARIABLES
  kind,               \* the hook the component uses: "none" before it is mounted
  hookOptions,        \* the options the hook was called with: [retry, manual]
  mountedRef,         \* mountedRef.current
  state,              \* the hook's useState value
  rendered,           \* the state of the last render: what the callbacks' closures see
  runs,               \* the invocations of the hook's async function, in order of start
  abortControllerRef, \* index in runs of the run whose controller the ref holds, 0 = null
  retryCountRef,      \* useQuery's retryCountRef.current
  retryTimers,        \* the setTimeout timers of useQuery's retry that have not fired
  effects             \* what the hook has done: state writes, sends, callbacks

bindingVars == <<kind, hookOptions, mountedRef, state, rendered, runs, abortControllerRef,
                 retryCountRef, retryTimers, effects>>
managerVars == <<reqHandlers, reqNextId, resHandlers, resNextId, defaults, derived>>
callVars == <<pc, opts, config, handlers, reversed, idx, response, error, caught,
              requestError, attempt, sent, waitLeft, signal, userAborted, result, reqLog, log,
              retryLog, tokenCanceled, hookLog>>
vars == <<reqHandlers, reqNextId, resHandlers, resNextId, pc, opts, config,
          handlers, reversed, idx, response, error, caught, requestError, attempt,
          sent, waitLeft, signal, userAborted, result, reqLog, log, retryLog, tokenCanceled, hookLog, defaults, derived,
          kind, hookOptions, mountedRef, state, rendered, runs, abortControllerRef,
          retryCountRef, retryTimers, effects>>

\* =================================================== interceptors/manager.ts
\* mutant: the id is the size of the Map
use_sizeAsId(map, nextId, onFulfilled, onRejected) ==
  Append(map, [id |-> Len(map), fulfilled |-> onFulfilled, rejected |-> onRejected])

\* use(): id = nextId++, handlers.set(id, {fulfilled, rejected}), return id
use(map, nextId, onFulfilled, onRejected) ==
  Append(map, [id |-> nextId, fulfilled |-> onFulfilled, rejected |-> onRejected])

\* eject(id): handlers.delete(id)
eject(map, id) == SelectSeq(map, LAMBDA h : h.id # id)

\* clear(): handlers.clear()
clear(map) == << >>

\* mutant: the array is built in reverse insertion order
getHandlers_reversed(map) == Reverse(map)

\* getHandlers(): Array.from(handlers.values()), a fresh array in insertion order
getHandlers(map) == map

\* get size(): handlers.size
size(map) == Len(map)

\* ============================================================ core/error.ts
\* A RequestError: code, status (NoStatus when no response is attached),
\* impl = it is a RequestErrorImpl instance (what isRequestError recognizes),
\* src = its message (the raw failure's message, or the site that threw),
\* hid/att = the handler and the attempt it comes from.
createError(code, status, src, hid, att) ==
  [code |-> code, status |-> status, impl |-> TRUE, src |-> src, hid |-> hid, att |-> att]

\* values the platform fetch rejects with (it rejects with the signal's abort reason)
AbortError == [name |-> "AbortError", message |-> "This operation was aborted"]
TimeoutReason == [name |-> "TimeoutError", message |-> "Request timeout"]
CancelReason == [name |-> "undefined", message |-> "Canceled"]
NetworkFailure == [name |-> "TypeError", message |-> "Failed to fetch"]

\* message.includes('timeout')
includesTimeout(message) == message \in {"Request timeout"}

\* createNetworkError: classification of a raw fetch failure by name / message
createNetworkError(raw, att) ==
  IF raw.name = "AbortError"
    THEN createError("ERR_CANCELED", NoStatus, raw.message, -1, att)
    ELSE IF raw.name = "TimeoutError" \/ includesTimeout(raw.message)
      THEN createError("ERR_TIMEOUT", NoStatus, raw.message, -1, att)
      ELSE createError("ERR_NETWORK", NoStatus, raw.message, -1, att)

\* createResponseError: status >= 500 ? ERR_BAD_RESPONSE : ERR_BAD_REQUEST
createResponseError(resp, att) ==
  createError(IF resp.status >= 500 THEN "ERR_BAD_RESPONSE" ELSE "ERR_BAD_REQUEST",
              resp.status, "status", -1, att)

isRequestError(e) == e.impl

isCancelError(e) == isRequestError(e) /\ e.code = "ERR_CANCELED"

\* features/timeout.ts isTimeoutAbortError
isTimeoutAbortError(raw) ==
  \/ raw.name = "TimeoutError"
  \/ raw.name = "AbortError" /\ includesTimeout(raw.message)

\* core/response.ts isSuccessStatus with the default validateStatus
isSuccessStatus(status) == status >= 200 /\ status < 300

\* ================================================= interceptors/request.ts
\* createInterceptorError of request.ts: a plain object, code ERR_BAD_REQUEST
createInterceptorError_request(src, hid) ==
  [code |-> "ERR_BAD_REQUEST", status |-> NoStatus, impl |-> FALSE,
   src |-> src, hid |-> hid, att |-> 0]

\* what a request handler's rejected function can do
RequestRejectedOutcomes ==
  {"descriptor", "promiseDescriptor", "other", "promiseOther", "throw"}

\* mutant: a promise returned by the rejected function is not awaited
requestRecovers_syncOnly(o) == o = "descriptor"

\* mutant: whatever the rejected function returns is taken as the new config
requestRecovers_anyValue(o) == o # "throw"

\* lines 34 and 39-41: the returned value, or the value its promise resolves
\* to, is an object with a url field
requestRecovers(o) == o = "descriptor" \/ o = "promiseDescriptor"

\* the Descriptor a fulfilled function of handler id returns
fulfilledConfig(cfg, id) == [cfg EXCEPT !.marks = Append(@, id)]

\* the patched Descriptor a rejected function of handler id returns
recoveredConfig(cfg, id) == [cfg EXCEPT !.url = id + 1]

NoError == [code |-> "none", status |-> NoStatus, impl |-> FALSE, src |-> "none", hid |-> -1, att |-> 0]
\* retryAfter of a response without a Retry-After header
NoRetryAfter == 0
NoResponse == [status |-> 0, marks |-> << >>, from |-> -1, retryAfter |-> NoRetryAfter]
NoSignal == [present |-> FALSE, aborted |-> FALSE, reason |-> AbortError, user |-> FALSE, timer |-> FALSE]
Pending == [state |-> "pending", error |-> NoError, response |-> NoResponse]

\* one entry of a log: function fn ("fulfilled" / "rejected") of handler id was
\* invoked with arg (fulfilled) or with err (rejected; arg = the current value);
\* ret = what it did ("return" / "throw" for fulfilled, the outcome for
\* rejected), out = the current value after it
Invoked(fn, id, arg, err, ret, out) ==
  [fn |-> fn, id |-> id, arg |-> arg, err |-> err, ret |-> ret, out |-> out]

\* the promise of the call settles
Resolved(resp) == [state |-> "resolved", error |-> NoError, response |-> resp]
Rejected(e) == [state |-> "rejected", error |-> e, response |-> NoResponse]

\* one iteration of the for loop of applyRequestInterceptors, lines 20-54, for
\* handler h: the next currentConfig, the functions invoked, and the error the
\* iteration throws (NoError: the loop goes on).  f is what h.fulfilled does
\* ("return" / "throw") and r what h.rejected does.
applyRequestInterceptors(cfg, h, f, r) ==
  LET e == createInterceptorError_request("request.fulfilled", h.id)
      e2 == createInterceptorError_request("request.rejected", h.id)
      threw == Invoked("fulfilled", h.id, cfg, NoError, "throw", cfg)
  IN
  IF ~h.fulfilled
    THEN [value |-> cfg, log |-> << >>, thrown |-> NoError]
    ELSE IF f = "return"
      THEN [value |-> fulfilledConfig(cfg, h.id),
            log |-> <<Invoked("fulfilled", h.id, cfg, NoError, "return", fulfilledConfig(cfg, h.id))>>,
            thrown |-> NoError]
      ELSE IF ~h.rejected
        THEN [value |-> cfg, log |-> <<threw>>, thrown |-> e]
        ELSE IF requestRecovers(r)
          THEN [value |-> recoveredConfig(cfg, h.id),
                log |-> <<threw, Invoked("rejected", h.id, cfg, e, r, recoveredConfig(cfg, h.id))>>,
                thrown |-> NoError]
          ELSE [value |-> cfg,
                log |-> <<threw, Invoked("rejected", h.id, cfg, e, r, cfg)>>,
                thrown |-> IF r = "throw" THEN e2 ELSE e]

\* ================================================ interceptors/response.ts
\* createInterceptorError of response.ts: a RequestErrorImpl; with a response
\* it carries its status and the code follows the status
createInterceptorError_response(resp, src, hid, att) ==
  IF resp.status # 0
    THEN createError(IF resp.status >= 500 THEN "ERR_BAD_RESPONSE" ELSE "ERR_BAD_REQUEST",
                     resp.status, src, hid, att)
    ELSE createError("ERR_BAD_REQUEST", NoStatus, src, hid, att)

\* what a response handler's rejected function can do
ResponseRejectedOutcomes ==
  {"response", "promiseResponse", "other", "promiseOther", "throwNew", "throwSame"}

\* statuses of the Response a rejected function returns
RecoveredStatuses == {200, 500}

\* mutant: whatever the rejected function returns is taken as the response
responseRecovers_anyValue(o) == o \notin {"throwNew", "throwSame"}

\* applyResponseInterceptors, lines 53 and 59-61: the returned value, or the
\* value its promise resolves to, is a Response
responseRecovers(o) == o = "response" \/ o = "promiseResponse"

\* mutant: a promise returned by the rejected function is not awaited
errorRecovers_syncOnly(o) == o = "response"

\* applyErrorInterceptors, lines 97 and 102-104: the same test
errorRecovers(o) == o = "response" \/ o = "promiseResponse"

\* mutant: the array is not reversed
responseOrder_forward(hs) == hs

\* lines 36 and 89: getHandlers().slice().reverse()
responseOrder(hs) == Reverse(hs)

\* mutant: the dispatch is left before its loop has visited every handler
dispatchDone_early(i, hs) == TRUE

\* lines 38 and 91: the for loop over the handlers is exhausted
dispatchDone(i, hs) == i > Len(hs)

\* the Envelope a fulfilled function of handler id returns
fulfilledResponse(resp, id) == [resp EXCEPT !.marks = Append(@, id)]

\* the Response a rejected function of handler id returns
recoveredResponse(id, status) ==
  [status |-> status, marks |-> << >>, from |-> id + 1, retryAfter |-> NoRetryAfter]

\* one iteration of the for loop of applyResponseInterceptors, lines 38-75
applyResponseInterceptors(resp, h, f, r, s, att) ==
  LET e == createInterceptorError_response(resp, "response.fulfilled", h.id, att)
      e2 == createInterceptorError_response(resp, "response.rejected", h.id, att)
      threw == Invoked("fulfilled", h.id, resp, NoError, "throw", resp)
  IN
  IF ~h.fulfilled
    THEN [value |-> resp, log |-> << >>, thrown |-> NoError]
    ELSE IF f = "return"
      THEN [value |-> fulfilledResponse(resp, h.id),
            log |-> <<Invoked("fulfilled", h.id, resp, NoError, "return", fulfilledResponse(resp, h.id))>>,
            thrown |-> NoError]
      ELSE IF ~h.rejected
        THEN [value |-> resp, log |-> <<threw>>, thrown |-> e]
        ELSE IF responseRecovers(r)
          THEN [value |-> recoveredResponse(h.id, s),
                log |-> <<threw, Invoked("rejected", h.id, resp, e, r, recoveredResponse(h.id, s))>>,
                thrown |-> NoError]
          ELSE [value |-> resp,
                log |-> <<threw, Invoked("rejected", h.id, resp, e, r, resp)>>,
                thrown |-> IF r = "throwNew" THEN e2 ELSE e]

\* one iteration of the for loop of applyErrorInterceptors, lines 91-118:
\* the next error, the function invoked, and the Response the dispatch
\* returns (NoResponse: the loop goes on)
applyErrorInterceptors(err, h, r, s, att) ==
  IF ~h.rejected
    THEN [error |-> err, log |-> << >>, recovered |-> NoResponse]
    ELSE IF errorRecovers(r)
      THEN [error |-> err,
            log |-> <<Invoked("rejected", h.id, NoResponse, err, r, recoveredResponse(h.id, s))>>,
            recovered |-> recoveredResponse(h.id, s)]
      ELSE [error |-> IF r = "throwNew"
                        THEN createInterceptorError_response(NoResponse, "error.rejected", h.id, att)
                        ELSE err,
            log |-> <<Invoked("rejected", h.id, NoResponse, err, r, NoResponse)>>,
            recovered |-> NoResponse]

\* ======================================================= features/retry.ts
\* delays are counted in time units of 1000 ms
DEFAULT_RETRY_CONFIG ==
  [limit |-> 0,
   methods |-> {"GET", "HEAD", "OPTIONS", "PUT", "DELETE"},
   statusCodes |-> {408, 429, 500, 502, 503, 504},
   delay |-> 1,
   backoff |-> "exponential",
   maxDelay |-> 30,
   hasCondition |-> FALSE]

\* the retry option of a call: absent, a number, or a RetryConfig object
RetryUndefined == [form |-> "undefined"]
RetryNumber(n) == [form |-> "number", limit |-> n]
RetryObject(n, d, b, m, c) ==
  [form |-> "object", limit |-> n, delay |-> d, backoff |-> b, maxDelay |-> m,
   hasCondition |-> c]

normalizeRetryConfig(c) ==
  IF c.form = "undefined"
    THEN [DEFAULT_RETRY_CONFIG EXCEPT !.limit = 0]
    ELSE IF c.form = "number"
      THEN [DEFAULT_RETRY_CONFIG EXCEPT !.limit = c.limit]
      ELSE [DEFAULT_RETRY_CONFIG EXCEPT !.limit = c.limit, !.delay = c.delay,
                                        !.backoff = c.backoff, !.maxDelay = c.maxDelay,
                                        !.hasCondition = c.hasCondition]

\* mutant: Math.min(calculatedDelay, maxDelay) is left out
calculateDelay_uncapped(att, cfg) ==
  IF cfg.backoff = "linear"
    THEN cfg.delay * att
    ELSE cfg.delay * Pow2(att - 1)

calculateDelay(att, cfg) ==
  IF cfg.backoff = "linear"
    THEN Min(cfg.delay * att, cfg.maxDelay)
    ELSE Min(cfg.delay * Pow2(att - 1), cfg.maxDelay)

\* mutant: an error without a status fails the status check
shouldRetry_statusRequired(err, att, cfg, method, cond) ==
  IF att >= cfg.limit THEN FALSE
  ELSE IF isCancelError(err) THEN FALSE
  ELSE IF method \notin cfg.methods THEN FALSE
  ELSE IF err.status \notin cfg.statusCodes THEN FALSE
  ELSE IF ~cond THEN FALSE
  ELSE TRUE

\* mutant: the limit check lets one more attempt through
shouldRetry_pastLimit(err, att, cfg, method, cond) ==
  IF att > cfg.limit + 1 THEN FALSE
  ELSE IF isCancelError(err) THEN FALSE
  ELSE IF method \notin cfg.methods THEN FALSE
  ELSE IF err.status # NoStatus /\ err.status \notin cfg.statusCodes THEN FALSE
  ELSE IF ~cond THEN FALSE
  ELSE TRUE

\* cond is what config.retryCondition(error) returns when it is asked
shouldRetry(err, att, cfg, method, cond) ==
  IF att >= cfg.limit THEN FALSE
  ELSE IF isCancelError(err) THEN FALSE
  ELSE IF method \notin cfg.methods THEN FALSE
  ELSE IF err.status # NoStatus /\ err.status \notin cfg.statusCodes THEN FALSE
  ELSE IF ~cond THEN FALSE
  ELSE TRUE

\* line 236: config.retryCondition(error) is called only when none of the
\* returns of lines 216-232 was taken
retryConditionCalled(err, att, cfg, method) ==
  /\ ~(att >= cfg.limit)
  /\ ~isCancelError(err)
  /\ method \in cfg.methods
  /\ ~(err.status # NoStatus /\ err.status \notin cfg.statusCodes)

\* mutant: onRetry is called before shouldRetry is consulted
onRetryCalls_always(decision, att, err, cfg) ==
  <<[attempt |-> att, error |-> err, config |-> cfg]>>

\* line 280: config.onRetry(attempt, requestError, requestConfig), reached only
\* when shouldRetry returned true; the calls made for one failed attempt
onRetryCalls(decision, att, err, cfg) ==
  IF decision THEN <<[attempt |-> att, error |-> err, config |-> cfg]>> ELSE << >>

\* one iteration of the catch block of withRetry, lines 265-283, as seen from
\* outside: the attempt number, the error caught, whether retryCondition was
\* called and what it answered, the decision, the onRetry calls, the delay
Decided(att, err, cfg, method, cond, descriptor) ==
  LET decision == shouldRetry(err, att, cfg, method, cond) IN
    [attempt |-> att, error |-> err,
     asked |-> retryConditionCalled(err, att, cfg, method), cond |-> cond,
     retry |-> decision,
     onRetry |-> onRetryCalls(decision, att, err, descriptor),
     delay |-> IF decision THEN calculateDelay(att, cfg) ELSE 0]

\* ============================================================ core/client.ts
\* mergeConfig: the Descriptor of a new call (url 0 is the URL the caller gave)
mergeConfig == [url |-> 0, marks |-> << >>]

\* lines 284-294: originalSignal, the signal of the call before the timeout is
\* applied.  A signal: aborted / reason, user = it follows the caller's own
\* AbortController, timer = it follows a timeout timer
composeSignal(o, aborted) ==
  IF o.cancelable
    THEN [present |-> TRUE, aborted |-> FALSE, reason |-> AbortError, user |-> FALSE,
          timer |-> FALSE]
    ELSE IF o.hasSignal
      THEN [present |-> TRUE, aborted |-> aborted, reason |-> AbortError, user |-> TRUE,
            timer |-> FALSE]
      ELSE NoSignal

\* features/timeout.ts createTimeoutSignal: a fresh signal and a running timer
createTimeoutSignal ==
  [present |-> TRUE, aborted |-> FALSE, reason |-> AbortError, user |-> FALSE, timer |-> TRUE]

\* features/timeout.ts combineSignals(timeoutSignal, userSignal): aborted at once
\* with the reason of an input that is aborted, else it follows both; the
\* timer of timeoutSignal runs on in either case
combineSignals(timeoutSignal, userSignal) ==
  [present |-> TRUE,
   aborted |-> timeoutSignal.aborted \/ userSignal.aborted,
   reason |-> IF timeoutSignal.aborted THEN timeoutSignal.reason ELSE userSignal.reason,
   user |-> userSignal.user,
   timer |-> timeoutSignal.timer]

\* mutant: the timeout signal alone is handed on, the caller's signal is dropped
applyTimeout_timeoutOnly(timeout, userSignal) ==
  IF ~timeout THEN userSignal ELSE createTimeoutSignal

\* features/timeout.ts applyTimeout; timeout = the call has a timeout > 0
applyTimeout(timeout, userSignal) ==
  IF ~timeout
    THEN userSignal
    ELSE IF ~userSignal.present
      THEN createTimeoutSignal
      ELSE combineSignals(createTimeoutSignal, userSignal)

\* mutant: the attempt is prepared from the merged options, not from the
\* Descriptor the request interceptors returned
prepareRequest_remerged(cfg) == mergeConfig.url

\* core/request.ts prepareRequest(internalConfig): the URL of the Request built
\* for one attempt
prepareRequest(cfg) == cfg.url

\* lines 372-388: the RequestError made of a raw failure of fetch
networkError(raw, att) ==
  IF isTimeoutAbortError(raw)
    THEN [createNetworkError(raw, att) EXCEPT !.code = "ERR_TIMEOUT"]
    ELSE createNetworkError(raw, att)

\* lines 398-400 and 416-418: catch { throw networkError } / catch { throw error }
rethrown(caughtError, finalError) == caughtError

\* core/request.ts DEFAULT_CONFIG, lines 22-26, as far as hooks go: a client without
\* onRequest, onResponse, onError and transformResponse
DEFAULT_CONFIG ==
  [onRequest |-> FALSE, onResponse |-> FALSE, onError |-> FALSE, transformResponse |-> FALSE]

\* utils deepMerge(DEFAULT_CONFIG, config) as far as hooks go: the hooks and
\* transform of config, DEFAULT_CONFIG has none
deepMerge(target, source) ==
  [f \in DOMAIN target |-> IF f \in DOMAIN source THEN source[f] ELSE target[f]]

\* the ClientConfig values createClient is called with
ClientConfigs ==
  [onRequest : BOOLEAN, onResponse : BOOLEAN, onError : BOOLEAN, transformResponse : BOOLEAN]

\* what a function of the application (hook, transform) throws: a plain Error,
\* no RequestError and without a code
thrownByApplication(src) ==
  [code |-> "undefined", status |-> NoStatus, impl |-> FALSE, src |-> src, hid |-> -1, att |-> 0]

\* the Error a hook throws inside the try block of executeRequest, and the
\* TypeError prepareRequest throws when new Request(url) rejects the URL
HookFailure == [name |-> "Error", message |-> "onResponse failed"]
PrepareFailure == [name |-> "TypeError", message |-> "Invalid URL"]

\* the entry a call of a hook leaves in hookLog, if the hook is configured; att
\* = the number of sends of the call so far
hookCalled(configured, hook, att) ==
  IF configured THEN <<[hook |-> hook, att |-> att]>> ELSE << >>

\* what a hook or transform of the application may do when it is configured
hookOutcomes(configured) == IF configured THEN {"return", "throw"} ELSE {"return"}

\* core/response.ts processResponse, returned by executeRequest without await
\* (lines 368, 397, 415): the promise of the attempt settles as this one does,
\* and what a transform throws is caught by no catch block of executeRequest
processResponse(resp, t) ==
  IF t = "return" THEN Resolved(resp) ELSE Rejected(thrownByApplication("transformResponse"))

\* a handler of a derived client's manager: the handler use() made and, in
\* `of`, the id of the origin's handler whose functions it was registered with
\* (-1: functions of its own)
registered(h, o) == [id |-> h.id, fulfilled |-> h.fulfilled, rejected |-> h.rejected, of |-> o]

\* lines 500-506 and 519-525: source.forEach(handler => target.use(handler
\* .fulfilled, handler.rejected)) into the fresh manager of the new client
RECURSIVE copyInto(_, _, _)
copyInto(map, nextId, hs) ==
  IF hs = << >>
    THEN [shared |-> FALSE, handlers |-> map, nextId |-> nextId]
    ELSE copyInto(Append(map, registered(use(<< >>, nextId, Head(hs).fulfilled,
                                              Head(hs).rejected)[1], Head(hs).id)),
                  nextId + 1, Tail(hs))

\* mutant: the new client is given the origin's manager itself
copyInterceptors_shared(source) == [shared |-> TRUE, handlers |-> << >>, nextId |-> 0]

\* the manager of a derived client: a manager of its own (createClient, lines
\* 244-245) holding copies of the source's handlers
copyInterceptors(source) == copyInto(<< >>, 0, source)

\* the handlers a derived client's manager lists, origin = the Map of the
\* origin's manager of the same kind
listDerived(manager, origin) ==
  IF manager.shared
    THEN [k \in 1..Len(origin) |-> registered(origin[k], origin[k].id)]
    ELSE manager.handlers

\* utils deepClone(defaults) as far as hooks go
deepClone(value) == value

NoManager == [shared |-> FALSE, handlers |-> << >>, nextId |-> 0]
NoClient ==
  [exists |-> FALSE, defaults |-> DEFAULT_CONFIG, request |-> NoManager, response |-> NoManager]

\* the configs extend() is called with
ExtendConfigs ==
  {c \in ClientConfigs : c.onRequest = c.onResponse /\ ~c.onError /\ ~c.transformResponse}

\* Retry-After headers of the 429 answers, in the time units of the delays
RetryAfters == {1, 3}

\* features/retry.ts getRetryAfterDelay(response): the delay the header asks
\* for, NoRetryAfter (undefined) without a header
getRetryAfterDelay(resp) == resp.retryAfter

\* ===================================================== adapters/react/hooks
\* useQuery, useRequest, useMutation, useInfiniteQuery: one component that
\* uses one of the hooks.  The client call each run awaits is seen from
\* outside: the transport answers, fails, or is aborted through the signal the
\* run passed; after the await the rest of the hook's async function runs.

\* invocations of its async function that one hook makes: the initial fetch
\* and two more
MaxRuns == 3

Hooks == {"query", "request", "mutation", "infinite"}

\* the options that matter per hook: retry of useQuery, manual of useRequest
HookOptions(k) ==
  [retry : IF k = "query" THEN {0, 1} ELSE {0},
   manual : IF k = "request" THEN BOOLEAN ELSE {FALSE}]

\* data: undefined; error: null; abortControllerRef.current: null
NoRun == 0

\* statuses the transport answers a hook's request with
HookStatuses == {200, 500}

blankState ==
  [data |-> NoRun, loading |-> FALSE, error |-> NoRun, isFetching |-> FALSE,
   isFetchingNextPage |-> FALSE, isFetchingPreviousPage |-> FALSE, pages |-> << >>]

\* the initial value of useState: data is the run it came from, error the run
\* that failed, pages the cursors of the pages in order
useState(k, o) ==
  [blankState EXCEPT !.loading = \/ k \in {"query", "infinite"}
                                 \/ (k = "request" /\ ~o.manual)]

\* a run of fetchData / execute / mutateAsync / fetchPage: its AbortController's
\* signal (aborted), connected = the signal is passed to the request it makes
newRun(k, dir, cur) ==
  [dir |-> dir, cursor |-> cur, aborted |-> FALSE, connected |-> k # "mutation",
   at |-> "fetch", status |-> NoStatus, error |-> NoError]

\* abortControllerRef.current?.abort()
abort(rs, ref) == IF ref = NoRun THEN rs ELSE [rs EXCEPT ![ref].aborted = TRUE]

\* the run is awaiting its request
InFlight(r) == r.at \in {"fetch", "answered"}

\* the setState at the start of a run
loadingState(k, dir, prev) ==
  CASE k = "query" ->
         [prev EXCEPT !.loading = (dir # "refetch" /\ prev.data = NoRun),
                      !.isFetching = TRUE,
                      !.error = IF dir = "refetch" THEN prev.error ELSE NoRun]
    [] k \in {"request", "mutation"} ->
         [prev EXCEPT !.loading = TRUE, !.error = NoRun]
    [] k = "infinite" ->
         [prev EXCEPT !.loading = (dir = "initial"),
                      !.isFetchingNextPage = (dir = "next"),
                      !.isFetchingPreviousPage = (dir = "previous"),
                      !.error = IF dir = "initial" THEN NoRun ELSE prev.error]

\* the setState after the request of run i resolved
resolvedState(k, i, dir, cur, prev) ==
  CASE k = "query" ->
         [prev EXCEPT !.data = i, !.loading = FALSE, !.error = NoRun, !.isFetching = FALSE]
    [] k \in {"request", "mutation"} ->
         [prev EXCEPT !.data = i, !.loading = FALSE, !.error = NoRun]
    [] k = "infinite" ->
         [prev EXCEPT !.pages = IF dir = "initial" THEN <<cur>>
                                ELSE IF dir = "next" THEN Append(prev.pages, cur)
                                ELSE <<cur>> \o prev.pages,
                      !.loading = FALSE, !.error = NoRun,
                      !.isFetchingNextPage = FALSE, !.isFetchingPreviousPage = FALSE]

\* the setState after the request of run i rejected
rejectedState(k, i, prev) ==
  CASE k = "query" ->
         [prev EXCEPT !.loading = FALSE, !.isFetching = FALSE, !.error = i]
    [] k \in {"request", "mutation"} ->
         [prev EXCEPT !.loading = FALSE, !.error = i]
    [] k = "infinite" ->
         [prev EXCEPT !.loading = FALSE, !.error = i,
                      !.isFetchingNextPage = FALSE, !.isFetchingPreviousPage = FALSE]

\* one entry of effects: what the hook did ("send", "start" / "outcome" /
\* "reset" = a setState, "onSuccess" / "onError" / "onSettled" = a callback of
\* the user) for run i, with mountedRef.current at that moment, the code
\* of the error concerned, whether the run's signal was aborted, whether it was
\* the latest run, and for a send whether a run of the same direction was in flight
Effect(what, i, live, code, ab, latest, busy) ==
  [what |-> what, run |-> i, mounted |-> live, code |-> code, aborted |-> ab,
   latest |-> latest, busy |-> busy]

\* getNextPageParam / getPreviousPageParam of the component: the cursor after
\* the last page, before the first page
getNextPageParam(pages) == pages[Len(pages)] + 1
getPreviousPageParam(pages) == pages[1] - 1

\* statuses the transport answers with
Statuses == {200, 404, 500}

Init ==
  /\ reqHandlers = << >> /\ reqNextId = 0
  /\ resHandlers = << >> /\ resNextId = 0
  /\ pc = "idle"
  /\ opts = [method |-> "GET", retry |-> RetryUndefined, cancelable |-> FALSE, hasSignal |-> FALSE,
           timeout |-> FALSE, cancelToken |-> FALSE]
  /\ config = mergeConfig
  /\ handlers = << >> /\ reversed = << >> /\ idx = 1
  /\ response = NoResponse
  /\ error = NoError /\ caught = NoError /\ requestError = NoError
  /\ attempt = 0
  /\ sent = << >>
  /\ waitLeft = 0
  /\ signal = NoSignal
  /\ userAborted = FALSE
  /\ result = Pending
  /\ reqLog = << >>
  /\ log = << >>
  /\ retryLog = << >>
  /\ tokenCanceled = FALSE
  /\ hookLog = << >>
  /\ defaults = DEFAULT_CONFIG
  /\ derived = NoClient
  /\ kind = "none"
  /\ hookOptions = [retry |-> 0, manual |-> FALSE]
  /\ mountedRef = FALSE
  /\ state = blankState /\ rendered = blankState
  /\ runs = << >>
  /\ abortControllerRef = NoRun
  /\ retryCountRef = 0
  /\ retryTimers = << >>
  /\ effects = {}

\* ---------------------------------------------------- interceptor managers
\* the application registers and removes interceptors between its calls
BetweenCalls == pc = "idle"

UseRequest ==
  /\ BetweenCalls
  /\ reqNextId < MaxIds
  /\ \E f, r \in BOOLEAN :
       /\ f \/ r
       /\ reqHandlers' = use(reqHandlers, reqNextId, f, r)
  /\ reqNextId' = reqNextId + 1
  /\ UNCHANGED <<resHandlers, resNextId, defaults, derived, callVars, bindingVars>>

EjectRequest ==
  /\ BetweenCalls
  /\ \E id \in 0..(reqNextId - 1) : reqHandlers' = eject(reqHandlers, id)
  /\ UNCHANGED <<reqNextId, resHandlers, resNextId, defaults, derived, callVars, bindingVars>>

ClearRequest ==
  /\ BetweenCalls
  /\ reqHandlers' = clear(reqHandlers)
  /\ UNCHANGED <<reqNextId, resHandlers, resNextId, defaults, derived, callVars, bindingVars>>

UseResponse ==
  /\ BetweenCalls
  /\ resNextId < MaxIds
  /\ \E f, r \in BOOLEAN :
       /\ f \/ r
       /\ resHandlers' = use(resHandlers, resNextId, f, r)
  /\ resNextId' = resNextId + 1
  /\ UNCHANGED <<reqHandlers, reqNextId, defaults, derived, callVars, bindingVars>>

EjectResponse ==
  /\ BetweenCalls
  /\ \E id \in 0..(resNextId - 1) : resHandlers' = eject(resHandlers, id)
  /\ UNCHANGED <<resNextId, reqHandlers, reqNextId, defaults, derived, callVars, bindingVars>>

ClearResponse ==
  /\ BetweenCalls
  /\ resHandlers' = clear(resHandlers)
  /\ UNCHANGED <<resNextId, reqHandlers, reqNextId, defaults, derived, callVars, bindingVars>>

\* a handler of the running dispatch, or other code running while the dispatch
\* is suspended at an await, registers and removes interceptors
RequestDispatchRuns == pc = "request"

UseRequestInDispatch ==
  /\ RequestDispatchRuns
  /\ reqNextId < MaxIds
  /\ \E f, r \in BOOLEAN :
       /\ f \/ r
       /\ reqHandlers' = use(reqHandlers, reqNextId, f, r)
  /\ reqNextId' = reqNextId + 1
  /\ UNCHANGED <<resHandlers, resNextId, defaults, derived, callVars, bindingVars>>

\* mutant: the dispatch iterates the manager's Map itself
EjectRequestInDispatch_live ==
  /\ RequestDispatchRuns
  /\ \E id \in 0..(reqNextId - 1) :
       /\ reqHandlers' = eject(reqHandlers, id)
       /\ handlers' = eject(handlers, id)
  /\ UNCHANGED <<bindingVars, reqNextId, resHandlers, resNextId, defaults, derived, pc, opts, config, reversed, idx,
                 response, error, caught, requestError, attempt, sent, waitLeft, signal,
                 userAborted, result, reqLog, log, retryLog, tokenCanceled, hookLog>>

EjectRequestInDispatch ==
  /\ RequestDispatchRuns
  /\ \E id \in 0..(reqNextId - 1) : reqHandlers' = eject(reqHandlers, id)
  /\ UNCHANGED <<reqNextId, resHandlers, resNextId, defaults, derived, callVars, bindingVars>>

ClearRequestInDispatch ==
  /\ RequestDispatchRuns
  /\ reqHandlers' = clear(reqHandlers)
  /\ UNCHANGED <<reqNextId, resHandlers, resNextId, defaults, derived, callVars, bindingVars>>

\* ------------------------------------------------------------ request()
\* lines 256-282 up to the first handler: merge the options, run the
\* onRequest hook (outside every try block: what it throws rejects the promise
\* of request() as it is), take the array of request handlers
StartCall(O) ==
  /\ pc = "idle"
  /\ \E o \in O : opts' = o
  /\ config' = mergeConfig
  /\ handlers' = getHandlers(reqHandlers)
  /\ idx' = 1
  /\ \E h \in hookOutcomes(defaults.onRequest) :
       IF h = "return"
         THEN /\ pc' = "request"
              /\ UNCHANGED result
         ELSE /\ pc' = "done"
              /\ result' = Rejected(thrownByApplication("onRequest"))
  /\ hookLog' = hookLog \o hookCalled(defaults.onRequest, "onRequest", 0)
  /\ UNCHANGED <<bindingVars, managerVars, requestError, retryLog, reversed, response, error, caught, attempt, sent,
                 waitLeft, signal, userAborted, tokenCanceled, reqLog, log>>

\* one handler of applyRequestInterceptors; an error thrown out of it rejects
\* the promise request() returned
RequestStep ==
  /\ pc = "request"
  /\ idx <= Len(handlers)
  /\ \E f \in {"return", "throw"}, r \in RequestRejectedOutcomes :
       LET st == applyRequestInterceptors(config, handlers[idx], f, r) IN
         /\ config' = st.value
         /\ reqLog' = reqLog \o st.log
         /\ IF st.thrown = NoError
              THEN /\ idx' = idx + 1
                   /\ UNCHANGED <<pc, result>>
              ELSE /\ pc' = "done"
                   /\ result' = Rejected(st.thrown)
                   /\ UNCHANGED idx
  /\ UNCHANGED <<bindingVars, managerVars, requestError, retryLog, opts, handlers, reversed, response, error, caught,
                 attempt, sent, waitLeft, signal, userAborted, tokenCanceled, hookLog, log>>

\* applyRequestInterceptors returned: lines 284-298, then withRetry is entered
RequestDone ==
  /\ pc = "request"
  /\ idx > Len(handlers)
  /\ signal' = applyTimeout(opts.timeout, composeSignal(opts, userAborted))
  /\ pc' = "execute"
  /\ UNCHANGED <<bindingVars, managerVars, requestError, retryLog, opts, config, handlers, reversed, idx, response, error,
                 caught, attempt, sent, waitLeft, userAborted, tokenCanceled, hookLog, result, reqLog, log>>

\* mutant: the onRequest hook is called by every attempt
Execute_onRequestHook ==
  /\ pc = "execute"
  /\ sent' = Append(sent, prepareRequest(config))
  /\ log' = << >>
  /\ response' = NoResponse
  /\ pc' = "fetch"
  /\ hookLog' = IF sent = << >>
                  THEN hookLog
                  ELSE hookLog \o hookCalled(defaults.onRequest, "onRequest", Len(sent))
  /\ UNCHANGED <<bindingVars, managerVars, requestError, retryLog, opts, config, handlers, reversed, idx, error, caught,
                 attempt, waitLeft, signal, userAborted, tokenCanceled, result, reqLog>>

\* executeRequest, lines 304-334: prepareRequest and the call of fetch
Execute ==
  /\ pc = "execute"
  /\ sent' = Append(sent, prepareRequest(config))
  /\ log' = << >>
  /\ response' = NoResponse
  /\ pc' = "fetch"
  /\ UNCHANGED <<bindingVars, managerVars, requestError, retryLog, opts, config, handlers, reversed, idx, error, caught,
                 attempt, waitLeft, signal, userAborted, tokenCanceled, hookLog, result, reqLog>>

\* lines 370-396 and 403-414: executeRequest catches e and starts
\* applyErrorInterceptors over a fresh reversed array of response handlers
Catch(e) ==
  /\ caught' = e
  /\ error' = e
  /\ reversed' = responseOrder(getHandlers(resHandlers))
  /\ idx' = 1
  /\ pc' = "recover"

\* executeRequest, lines 304-306: prepareRequest throws inside the try block,
\* nothing is sent
PrepareFails ==
  /\ pc = "execute"
  /\ log' = << >>
  /\ response' = NoResponse
  /\ Catch(networkError(PrepareFailure, Len(sent) + 1))
  /\ hookLog' = hookLog \o hookCalled(defaults.onError, "onError", Len(sent) + 1)
  /\ UNCHANGED <<bindingVars, managerVars, requestError, retryLog, opts, config, handlers, attempt, sent,
                 waitLeft, signal, userAborted, tokenCanceled, result, reqLog>>

\* fetch resolves with a response: lines 342-345, the onResponse hook runs
\* inside the try block, then applyResponseInterceptors starts
FetchResponds ==
  /\ pc = "fetch"
  /\ ~signal.aborted
  /\ \E s \in Statuses :
       response' = [status |-> s, marks |-> << >>, from |-> 0, retryAfter |-> NoRetryAfter]
  /\ \E h \in hookOutcomes(defaults.onResponse) :
       IF h = "return"
         THEN /\ reversed' = responseOrder(getHandlers(resHandlers))
              /\ idx' = 1
              /\ pc' = "response"
              /\ hookLog' = hookLog \o hookCalled(defaults.onResponse, "onResponse", Len(sent))
              /\ UNCHANGED <<error, caught>>
         ELSE /\ Catch(networkError(HookFailure, Len(sent)))
              /\ hookLog' = hookLog \o hookCalled(defaults.onResponse, "onResponse", Len(sent))
                                   \o hookCalled(defaults.onError, "onError", Len(sent))
  /\ UNCHANGED <<bindingVars, managerVars, requestError, retryLog, opts, config, handlers, attempt, sent,
                 waitLeft, signal, userAborted, tokenCanceled, result, reqLog, log>>

\* fetch resolves with a 429 response that carries a Retry-After header of ra
\* time units; as FetchResponds otherwise
FetchRateLimited ==
  /\ pc = "fetch"
  /\ ~signal.aborted
  /\ \E ra \in RetryAfters :
       response' = [status |-> 429, marks |-> << >>, from |-> 0, retryAfter |-> ra]
  /\ \E h \in hookOutcomes(defaults.onResponse) :
       IF h = "return"
         THEN /\ reversed' = responseOrder(getHandlers(resHandlers))
              /\ idx' = 1
              /\ pc' = "response"
              /\ hookLog' = hookLog \o hookCalled(defaults.onResponse, "onResponse", Len(sent))
              /\ UNCHANGED <<error, caught>>
         ELSE /\ Catch(networkError(HookFailure, Len(sent)))
              /\ hookLog' = hookLog \o hookCalled(defaults.onResponse, "onResponse", Len(sent))
                                   \o hookCalled(defaults.onError, "onError", Len(sent))
  /\ UNCHANGED <<bindingVars, managerVars, requestError, retryLog, opts, config, handlers, attempt, sent,
                 waitLeft, signal, userAborted, tokenCanceled, result, reqLog, log>>

\* fetch rejects with a network failure; lines 372-382: the catch block makes
\* the network error and calls the onError hook with it
FetchFails ==
  /\ pc = "fetch"
  /\ ~signal.aborted
  /\ Catch(networkError(NetworkFailure, Len(sent)))
  /\ hookLog' = hookLog \o hookCalled(defaults.onError, "onError", Len(sent))
  /\ UNCHANGED <<bindingVars, managerVars, requestError, retryLog, opts, config, handlers, response, attempt, sent,
                 waitLeft, signal, userAborted, tokenCanceled, result, reqLog, log>>

\* the signal of the request is aborted: fetch rejects with the abort reason
FetchAborted ==
  /\ pc = "fetch"
  /\ signal.aborted
  /\ Catch(networkError(signal.reason, Len(sent)))
  /\ hookLog' = hookLog \o hookCalled(defaults.onError, "onError", Len(sent))
  /\ UNCHANGED <<bindingVars, managerVars, requestError, retryLog, opts, config, handlers, response, attempt, sent,
                 waitLeft, signal, userAborted, tokenCanceled, result, reqLog, log>>

\* one handler of applyResponseInterceptors
ResponseStep ==
  /\ pc = "response"
  /\ idx <= Len(reversed)
  /\ \E f \in {"return", "throw"}, r \in ResponseRejectedOutcomes, s \in RecoveredStatuses :
       LET st == applyResponseInterceptors(response, reversed[idx], f, r, s, Len(sent)) IN
         /\ response' = st.value
         /\ log' = log \o st.log
         /\ IF st.thrown = NoError
              THEN /\ idx' = idx + 1
                   /\ UNCHANGED <<pc, reversed, error, caught>>
              ELSE Catch(st.thrown)
  /\ UNCHANGED <<bindingVars, managerVars, requestError, retryLog, opts, config, handlers, attempt, sent, waitLeft, signal,
                 userAborted, tokenCanceled, hookLog, result, reqLog>>

\* applyResponseInterceptors returned: lines 354-368, status validation, then
\* processResponse or the onError hook and the throw of createResponseError
ResponseDone ==
  /\ pc = "response"
  /\ dispatchDone(idx, reversed)
  /\ IF isSuccessStatus(response.status)
       THEN \E t \in hookOutcomes(defaults.transformResponse) :
              LET p == processResponse(response, t) IN
                IF p.state = "resolved"
                  THEN /\ pc' = "done"
                       /\ result' = p
                       /\ UNCHANGED <<reversed, idx, error, caught, hookLog>>
                  ELSE /\ pc' = "thrown"
                       /\ caught' = p.error
                       /\ UNCHANGED <<reversed, idx, error, result, hookLog>>
       ELSE /\ Catch(createResponseError(response, Len(sent)))
            /\ hookLog' = hookLog \o hookCalled(defaults.onError, "onError", Len(sent))
            /\ UNCHANGED result
  /\ UNCHANGED <<bindingVars, managerVars, requestError, retryLog, opts, config, handlers, response, attempt, sent, waitLeft,
                 signal, userAborted, tokenCanceled, reqLog, log>>

\* one handler of applyErrorInterceptors; a Response it returns is processed
\* and resolves the call
RecoverStep ==
  /\ pc = "recover"
  /\ idx <= Len(reversed)
  /\ \E r \in ResponseRejectedOutcomes, s \in RecoveredStatuses :
       LET st == applyErrorInterceptors(error, reversed[idx], r, s, Len(sent)) IN
         /\ error' = st.error
         /\ log' = log \o st.log
         /\ IF st.recovered = NoResponse
              THEN /\ idx' = idx + 1
                   /\ UNCHANGED <<pc, result, caught>>
              ELSE \E t \in hookOutcomes(defaults.transformResponse) :
                     LET p == processResponse(st.recovered, t) IN
                       IF p.state = "resolved"
                         THEN /\ pc' = "done"
                              /\ result' = p
                              /\ UNCHANGED <<idx, caught>>
                         ELSE /\ pc' = "thrown"
                              /\ caught' = p.error
                              /\ UNCHANGED <<idx, result>>
  /\ UNCHANGED <<bindingVars, managerVars, requestError, retryLog, opts, config, handlers, reversed, response,
                 attempt, sent, waitLeft, signal, userAborted, tokenCanceled, hookLog, reqLog>>

\* applyErrorInterceptors threw: executeRequest rethrows to withRetry
RecoverDone ==
  /\ pc = "recover"
  /\ dispatchDone(idx, reversed)
  /\ caught' = rethrown(caught, error)
  /\ pc' = "thrown"
  /\ UNCHANGED <<bindingVars, managerVars, requestError, retryLog, opts, config, handlers, reversed, idx, response, error,
                 attempt, sent, waitLeft, signal, userAborted, tokenCanceled, hookLog, result, reqLog, log>>

\* withRetry, lines 252-283: fn() rejected and the locals of executeRequest
\* are gone.  With limit 0 the rejection is the call's; otherwise the catch
\* block decides and starts the delay timer
Thrown ==
  /\ pc = "thrown"
  /\ LET cfg == normalizeRetryConfig(opts.retry) IN
       IF cfg.limit = 0
         THEN /\ pc' = "done"
              /\ result' = Rejected(caught)
              /\ UNCHANGED <<attempt, waitLeft, requestError, retryLog>>
         ELSE /\ attempt' = attempt + 1
              /\ \E cond \in (IF cfg.hasCondition THEN BOOLEAN ELSE {TRUE}) :
                   LET d == Decided(attempt + 1, caught, cfg, opts.method, cond, config) IN
                   /\ retryLog' = Append(retryLog, d)
                   /\ IF d.retry
                        THEN /\ waitLeft' = d.delay
                             /\ requestError' = caught
                             /\ pc' = "wait"
                             /\ UNCHANGED result
                        ELSE /\ pc' = "done"
                             /\ result' = Rejected(caught)
                             /\ UNCHANGED <<waitLeft, requestError>>
  /\ caught' = NoError /\ error' = NoError
  /\ reversed' = << >> /\ idx' = 1
  /\ response' = NoResponse
  /\ log' = << >>
  /\ UNCHANGED <<bindingVars, managerVars, opts, config, handlers, sent, signal, userAborted, tokenCanceled, hookLog, reqLog>>

\* one time unit of delay(retryDelay) elapses; the timer cannot be cancelled
Tick ==
  /\ pc = "wait"
  /\ waitLeft > 0
  /\ waitLeft' = waitLeft - 1
  /\ UNCHANGED <<bindingVars, managerVars, requestError, retryLog, pc, opts, config, handlers, reversed, idx, response,
                 error, caught, attempt, sent, signal, userAborted, tokenCanceled, hookLog, result, reqLog, log>>

\* lines 285-289: the delay is over; stop if the signal is aborted, else the
\* while loop calls fn() again
WaitDone ==
  /\ pc = "wait"
  /\ waitLeft = 0
  /\ IF signal.present /\ signal.aborted
       THEN /\ pc' = "done"
            /\ result' = Rejected(requestError)
       ELSE /\ pc' = "execute"
            /\ UNCHANGED result
  /\ requestError' = NoError
  /\ UNCHANGED <<bindingVars, managerVars, retryLog, opts, config, handlers, reversed, idx, response, error,
                 caught, attempt, sent, waitLeft, signal, userAborted, tokenCanceled, hookLog, reqLog, log>>

\* the caller fires the AbortController whose signal it passed in the options
UserAbort ==
  /\ pc \notin {"idle", "done"}
  /\ opts.hasSignal
  /\ ~userAborted
  /\ userAborted' = TRUE
  /\ signal' = IF signal.present /\ signal.user /\ ~signal.aborted
                 THEN [signal EXCEPT !.aborted = TRUE, !.reason = AbortError]
                 ELSE signal
  /\ UNCHANGED <<bindingVars, managerVars, requestError, retryLog, pc, opts, config, handlers, reversed, idx, response,
                 error, caught, attempt, sent, waitLeft, result, reqLog, log, tokenCanceled, hookLog>>

\* features/cancel.ts CancelToken.source().cancel, lines 47-55 and 65-74: the
\* caller cancels the source whose token it passed as the cancelToken option.
\* The token gets its reason and its promise resolves; request() has made no
\* AbortController of the token (cancelTokenToAbortController is called nowhere),
\* so the signal of the call does not change
SourceCancel ==
  /\ pc \notin {"idle", "done"}
  /\ opts.cancelToken
  /\ ~tokenCanceled
  /\ tokenCanceled' = TRUE
  /\ UNCHANGED <<bindingVars, managerVars, requestError, retryLog, pc, opts, config, handlers, reversed, idx, response,
                 error, caught, attempt, sent, waitLeft, signal, userAborted, hookLog, result,
                 reqLog, log>>

\* features/cancel.ts makeCancelable: cancel() = controller.abort(new CancelImpl('Canceled'));
\* the caller holds the pair once request() has returned, i.e. after the first fetch call
Cancel ==
  /\ pc \in {"fetch", "response", "recover", "thrown", "wait", "execute"}
  /\ Len(sent) >= 1
  /\ opts.cancelable
  /\ ~signal.aborted
  /\ signal' = [signal EXCEPT !.aborted = TRUE, !.reason = CancelReason]
  /\ UNCHANGED <<bindingVars, managerVars, requestError, retryLog, pc, opts, config, handlers, reversed, idx, response,
                 error, caught, attempt, sent, waitLeft, userAborted, tokenCanceled, hookLog, result, reqLog, log>>

\* features/timeout.ts createTimeoutSignal, lines 13-15: the timer set when the
\* signal was composed fires, controller.abort(new DOMException('Request
\* timeout', 'TimeoutError')); nothing clears the timer, aborting an aborted
\* signal changes nothing
TimeoutFires ==
  /\ pc \notin {"idle", "request", "done"}
  /\ signal.present /\ signal.timer
  /\ signal' = IF signal.aborted
                 THEN [signal EXCEPT !.timer = FALSE]
                 ELSE [signal EXCEPT !.aborted = TRUE, !.reason = TimeoutReason,
                                     !.timer = FALSE]
  /\ UNCHANGED <<bindingVars, managerVars, requestError, retryLog, pc, opts, config, handlers, reversed, idx,
                 response, error, caught, attempt, sent, waitLeft, userAborted, tokenCanceled, hookLog, result,
                 reqLog, log>>

\* the caller has the outcome; the call's state is dropped
Finish ==
  /\ pc = "done"
  /\ pc' = "idle"
  /\ opts' = [method |-> "GET", retry |-> RetryUndefined, cancelable |-> FALSE, hasSignal |-> FALSE,
           timeout |-> FALSE, cancelToken |-> FALSE]
  /\ config' = mergeConfig
  /\ handlers' = << >> /\ reversed' = << >> /\ idx' = 1
  /\ response' = NoResponse
  /\ error' = NoError /\ caught' = NoError /\ requestError' = NoError
  /\ attempt' = 0
  /\ sent' = << >>
  /\ waitLeft' = 0
  /\ signal' = NoSignal
  /\ userAborted' = FALSE
  /\ result' = Pending
  /\ reqLog' = << >>
  /\ log' = << >>
  /\ retryLog' = << >>
  /\ tokenCanceled' = FALSE
  /\ hookLog' = << >>
  /\ UNCHANGED <<bindingVars, managerVars>>

\* createClient(config), lines 239-251: the application replaces its client by
\* a new one with fresh interceptor managers
createClient(C) ==
  /\ pc = "idle"
  /\ \E c \in C : defaults' = deepMerge(DEFAULT_CONFIG, c)
  /\ reqHandlers' = << >> /\ reqNextId' = 0
  /\ resHandlers' = << >> /\ resNextId' = 0
  /\ derived' = NoClient
  /\ UNCHANGED <<callVars, bindingVars>>

\* extend(extendConfig), lines 496-510, and clone(), lines 515-527: a new
\* client of the merged / cloned config, the handlers of both managers
\* registered with it
extend(C) ==
  /\ pc = "idle"
  /\ ~derived.exists
  /\ \E c \in C :
       derived' = [exists |-> TRUE, defaults |-> deepMerge(defaults, c),
                   request |-> copyInterceptors(reqHandlers),
                   response |-> copyInterceptors(resHandlers)]
  /\ UNCHANGED <<reqHandlers, reqNextId, resHandlers, resNextId, defaults, callVars, bindingVars>>

clone ==
  /\ pc = "idle"
  /\ ~derived.exists
  /\ derived' = [exists |-> TRUE, defaults |-> deepClone(defaults),
                 request |-> copyInterceptors(reqHandlers),
                 response |-> copyInterceptors(resHandlers)]
  /\ UNCHANGED <<reqHandlers, reqNextId, resHandlers, resNextId, defaults, callVars, bindingVars>>

\* the application drops the derived client
DropDerived ==
  /\ pc = "idle"
  /\ derived.exists
  /\ derived' = NoClient
  /\ UNCHANGED <<reqHandlers, reqNextId, resHandlers, resNextId, defaults, callVars, bindingVars>>

\* interceptors.request.use / eject / clear of the derived client
UseDerived ==
  /\ pc = "idle"
  /\ derived.exists
  /\ \E f, r \in BOOLEAN :
       /\ f \/ r
       /\ IF derived.request.shared
            THEN /\ reqNextId < MaxIds
                 /\ reqHandlers' = use(reqHandlers, reqNextId, f, r)
                 /\ reqNextId' = reqNextId + 1
                 /\ UNCHANGED derived
            ELSE /\ derived.request.nextId < MaxIds
                 /\ derived' = [derived EXCEPT
                      !.request.handlers =
                         Append(@, registered(use(<< >>, derived.request.nextId, f, r)[1], -1)),
                      !.request.nextId = @ + 1]
                 /\ UNCHANGED <<reqHandlers, reqNextId>>
  /\ UNCHANGED <<resHandlers, resNextId, defaults, callVars, bindingVars>>

EjectDerived ==
  /\ pc = "idle"
  /\ derived.exists
  /\ IF derived.request.shared
       THEN /\ \E id \in 0..(reqNextId - 1) : reqHandlers' = eject(reqHandlers, id)
            /\ UNCHANGED derived
       ELSE /\ \E id \in 0..(derived.request.nextId - 1) :
                 derived' = [derived EXCEPT !.request.handlers = eject(@, id)]
            /\ UNCHANGED reqHandlers
  /\ UNCHANGED <<reqNextId, resHandlers, resNextId, defaults, callVars, bindingVars>>

ClearDerived ==
  /\ pc = "idle"
  /\ derived.exists
  /\ IF derived.request.shared
       THEN /\ reqHandlers' = clear(reqHandlers)
            /\ UNCHANGED derived
       ELSE /\ derived' = [derived EXCEPT !.request.handlers = clear(@)]
            /\ UNCHANGED reqHandlers
  /\ UNCHANGED <<reqNextId, resHandlers, resNextId, defaults, callVars, bindingVars>>

\* --------------------------------------------------------- specifications
\* ------------------------------------------------------- the hooks' actions
\* the head of fetchData / execute / mutateAsync / fetchPage up to its await:
\* abort the controller in the ref, put a new one there, setState if
\* mountedRef.current (live), call the request.  st is the state before
begin(k, dir, cur, st, live) ==
  LET i == Len(runs) + 1
      busy == \E j \in DOMAIN runs :
                runs[j].dir = dir /\ InFlight(runs[j]) /\ ~runs[j].aborted
  IN
  /\ Len(runs) < MaxRuns
  /\ runs' = Append(abort(runs, abortControllerRef), newRun(k, dir, cur))
  /\ abortControllerRef' = i
  /\ state' = IF live THEN loadingState(k, dir, st) ELSE st
  /\ effects' = effects
       \cup {Effect("send", i, live, "none", FALSE, TRUE, busy)}
       \cup (IF live THEN {Effect("start", i, live, "none", FALSE, TRUE, busy)} ELSE {})

\* the component is mounted: first render, then the effects: mountedRef.current
\* = true, the initial fetch of useQuery and useInfiniteQuery, the execute() of
\* a useRequest that is not manual
Mount(K) ==
  /\ kind = "none"
  /\ \E k \in K : \E o \in HookOptions(k) :
       /\ kind' = k
       /\ hookOptions' = o
       /\ rendered' = useState(k, o)
       /\ IF k = "mutation" \/ (k = "request" /\ o.manual)
            THEN /\ state' = useState(k, o)
                 /\ UNCHANGED <<runs, abortControllerRef, effects>>
            ELSE begin(k, CASE k = "query" -> "fetch" [] k = "request" -> "execute"
                             [] k = "infinite" -> "initial",
                       0, useState(k, o), TRUE)
  /\ mountedRef' = TRUE
  /\ UNCHANGED <<retryCountRef, retryTimers, managerVars, callVars>>

\* React renders the component again: the callbacks are made anew over the
\* current state
Render ==
  /\ mountedRef
  /\ rendered # state
  /\ rendered' = state
  /\ UNCHANGED <<kind, hookOptions, mountedRef, state, runs, abortControllerRef,
                 retryCountRef, retryTimers, effects, managerVars, callVars>>

\* the cleanup of the first effect: mountedRef.current = false, abort
Unmount ==
  /\ mountedRef
  /\ mountedRef' = FALSE
  /\ runs' = abort(runs, abortControllerRef)
  /\ UNCHANGED <<kind, hookOptions, state, rendered, abortControllerRef,
                 retryCountRef, retryTimers, effects, managerVars, callVars>>

\* useQuery: an effect of the mounted component calls fetchData: the URL
\* changed (fetchData()), the poll interval, focus or reconnect (fetchData(true))
fetchData ==
  /\ kind = "query"
  /\ mountedRef
  /\ \E dir \in {"fetch", "refetch"} : begin(kind, dir, 0, state, mountedRef)
  /\ UNCHANGED <<kind, hookOptions, mountedRef, rendered, retryCountRef, retryTimers,
                 managerVars, callVars>>

\* useQuery refetch() / useInfiniteQuery refetch(), called by whoever holds it
refetch ==
  /\ kind \in {"query", "infinite"}
  /\ begin(kind, IF kind = "query" THEN "refetch" ELSE "initial", 0, state, mountedRef)
  /\ retryCountRef' = IF kind = "query" THEN 0 ELSE retryCountRef
  /\ UNCHANGED <<kind, hookOptions, mountedRef, rendered, retryTimers, managerVars, callVars>>

\* useQuery, lines 156: a timer set by the catch block fires, fetchData(isRefetch)
RetryTimerFires ==
  /\ kind = "query"
  /\ \E t \in DOMAIN retryTimers :
       /\ begin(kind, retryTimers[t], 0, state, mountedRef)
       /\ retryTimers' = SubSeq(retryTimers, 1, t - 1) \o SubSeq(retryTimers, t + 1, Len(retryTimers))
  /\ UNCHANGED <<kind, hookOptions, mountedRef, rendered, retryCountRef, managerVars, callVars>>

\* useRequest execute(), called by whoever holds it
execute ==
  /\ kind = "request"
  /\ begin(kind, "execute", 0, state, mountedRef)
  /\ UNCHANGED <<kind, hookOptions, mountedRef, rendered, retryCountRef, retryTimers,
                 managerVars, callVars>>

\* useMutation mutateAsync(variables) / mutate(variables)
mutateAsync ==
  /\ kind = "mutation"
  /\ begin(kind, "mutate", 0, state, mountedRef)
  /\ UNCHANGED <<kind, hookOptions, mountedRef, rendered, retryCountRef, retryTimers,
                 managerVars, callVars>>

\* useRequest / useMutation reset(): abort, setState
reset ==
  /\ kind \in {"request", "mutation"}
  /\ runs' = abort(runs, abortControllerRef)
  /\ state' = [blankState EXCEPT !.pages = state.pages]
  /\ effects' = effects \cup {Effect("reset", NoRun, mountedRef, "none", FALSE, TRUE, FALSE)}
  /\ UNCHANGED <<kind, hookOptions, mountedRef, rendered, abortControllerRef,
                 retryCountRef, retryTimers, managerVars, callVars>>

\* useInfiniteQuery fetchNextPage of the last render: hasNextPage and
\* state.isFetchingNextPage are those of that render
fetchNextPage ==
  /\ kind = "infinite"
  /\ rendered.pages # << >>
  /\ ~rendered.isFetchingNextPage
  /\ begin(kind, "next", getNextPageParam(rendered.pages), state, mountedRef)
  /\ UNCHANGED <<kind, hookOptions, mountedRef, rendered, retryCountRef, retryTimers,
                 managerVars, callVars>>

\* useInfiniteQuery fetchPreviousPage of the last render
fetchPreviousPage ==
  /\ kind = "infinite"
  /\ rendered.pages # << >>
  /\ ~rendered.isFetchingPreviousPage
  /\ begin(kind, "previous", getPreviousPageParam(rendered.pages), state, mountedRef)
  /\ UNCHANGED <<kind, hookOptions, mountedRef, rendered, retryCountRef, retryTimers,
                 managerVars, callVars>>

\* the transport answers the request of a run; an aborted signal that was
\* passed to the request makes fetch reject instead
TransportResponds ==
  /\ \E i \in DOMAIN runs : \E s \in HookStatuses :
       /\ runs[i].at = "fetch"
       /\ ~(runs[i].connected /\ runs[i].aborted)
       /\ runs' = [runs EXCEPT ![i].at = "answered", ![i].status = s,
                               ![i].error = IF isSuccessStatus(s) THEN NoError
                                            ELSE createResponseError([status |-> s], 1)]
  /\ UNCHANGED <<kind, hookOptions, mountedRef, state, rendered, abortControllerRef,
                 retryCountRef, retryTimers, effects, managerVars, callVars>>

\* the transport fails
TransportFails ==
  /\ \E i \in DOMAIN runs :
       /\ runs[i].at = "fetch"
       /\ ~(runs[i].connected /\ runs[i].aborted)
       /\ runs' = [runs EXCEPT ![i].at = "failed",
                               ![i].error = networkError(NetworkFailure, 1)]
  /\ UNCHANGED <<kind, hookOptions, mountedRef, state, rendered, abortControllerRef,
                 retryCountRef, retryTimers, effects, managerVars, callVars>>

\* the signal passed to the request is aborted while fetch is pending: fetch
\* rejects with the AbortError, the client rejects with ERR_CANCELED
TransportAborted ==
  /\ \E i \in DOMAIN runs :
       /\ runs[i].at = "fetch"
       /\ runs[i].connected /\ runs[i].aborted
       /\ runs' = [runs EXCEPT ![i].at = "failed",
                               ![i].error = networkError(AbortError, 1)]
  /\ UNCHANGED <<kind, hookOptions, mountedRef, state, rendered, abortControllerRef,
                 retryCountRef, retryTimers, effects, managerVars, callVars>>

\* the await of run i returns or throws and the rest of fetchData / execute /
\* mutateAsync / fetchPage runs
CallSettles ==
  \E i \in DOMAIN runs :
    LET r == runs[i]
        e == r.error
        ev(what) == Effect(what, i, mountedRef, e.code, r.aborted, i = Len(runs), FALSE)
    IN
    /\ r.at \in {"answered", "failed"}
    /\ runs' = [runs EXCEPT ![i].at = "settled"]
    /\ IF e = NoError
         THEN /\ state' = IF mountedRef
                            THEN resolvedState(kind, i, r.dir, r.cursor, state) ELSE state
              /\ retryCountRef' = IF kind = "query" /\ mountedRef THEN 0 ELSE retryCountRef
              /\ effects' = effects
                   \cup (IF mountedRef THEN {ev("outcome")} ELSE {})
                   \cup (IF kind # "infinite" \/ r.dir = "initial" THEN {ev("onSuccess")} ELSE {})
                   \cup (IF kind = "mutation" THEN {ev("onSettled")} ELSE {})
              /\ UNCHANGED retryTimers
         ELSE IF kind \in {"query", "infinite"} /\ isCancelError(e)
           THEN UNCHANGED <<state, retryCountRef, retryTimers, effects>>
           ELSE IF kind = "query" /\ retryCountRef < hookOptions.retry
             THEN /\ retryCountRef' = retryCountRef + 1
                  /\ retryTimers' = Append(retryTimers, r.dir)
                  /\ UNCHANGED <<state, effects>>
             ELSE /\ state' = IF mountedRef /\ ~isCancelError(e)
                                THEN rejectedState(kind, i, state) ELSE state
                  /\ effects' = effects
                       \cup (IF mountedRef /\ ~isCancelError(e) THEN {ev("outcome")} ELSE {})
                       \cup {ev("onError")}
                       \cup (IF kind = "mutation" THEN {ev("onSettled")} ELSE {})
                  /\ UNCHANGED <<retryCountRef, retryTimers>>
    /\ UNCHANGED <<kind, hookOptions, mountedRef, rendered, abortControllerRef,
                   managerVars, callVars>>

\* one component with any of the four hooks
NextBindings ==
  \/ Mount(Hooks) \/ Render \/ Unmount
  \/ fetchData \/ refetch \/ RetryTimerFires
  \/ execute \/ mutateAsync \/ reset
  \/ fetchNextPage \/ fetchPreviousPage
  \/ TransportResponds \/ TransportFails \/ TransportAborted \/ CallSettles

SpecBindings == Init /\ [][NextBindings]_vars

\* a component with useQuery
NextQuery ==
  \/ Mount({"query"}) \/ Render \/ Unmount
  \/ fetchData \/ refetch \/ RetryTimerFires
  \/ TransportResponds \/ TransportFails \/ TransportAborted \/ CallSettles

SpecQuery == Init /\ [][NextQuery]_vars

\* a component with useMutation: mutationFn gets no signal, nothing aborts it
NextMutation ==
  \/ Mount({"mutation"}) \/ Render \/ Unmount
  \/ mutateAsync \/ reset
  \/ TransportResponds \/ TransportFails \/ CallSettles

SpecMutation == Init /\ [][NextMutation]_vars

\* a component with useInfiniteQuery
NextInfinite ==
  \/ Mount({"infinite"}) \/ Render \/ Unmount
  \/ refetch \/ fetchNextPage \/ fetchPreviousPage
  \/ TransportResponds \/ TransportFails \/ TransportAborted \/ CallSettles

SpecInfinite == Init /\ [][NextInfinite]_vars

Methods == {"GET", "POST"}

\* options of the calls of each specification
RequestOptions ==
  {[method |-> "GET", retry |-> RetryUndefined, cancelable |-> FALSE, hasSignal |-> FALSE,
           timeout |-> FALSE, cancelToken |-> FALSE]}

ResponseOptions ==
  {[method |-> "GET", retry |-> rt, cancelable |-> FALSE, hasSignal |-> FALSE,
    timeout |-> FALSE, cancelToken |-> FALSE] :
     rt \in {RetryUndefined, RetryNumber(2)}}

RetryOptions ==
  {[method |-> m, retry |-> rt, cancelable |-> c, hasSignal |-> hs, timeout |-> t, cancelToken |-> FALSE] :
     m \in Methods,
     rt \in {RetryUndefined} \cup {RetryNumber(n) : n \in 0..MaxLimit}
            \cup {RetryObject(n, 1, b, m, cd) :
                    n \in {1, MaxLimit}, b \in {"linear", "exponential"},
                    m \in {2, 30}, cd \in BOOLEAN},
     c \in BOOLEAN, hs \in BOOLEAN, t \in BOOLEAN}

PipelineOptions ==
  {[method |-> "GET", retry |-> RetryNumber(MaxLimit), cancelable |-> FALSE,
    hasSignal |-> FALSE, timeout |-> t, cancelToken |-> FALSE] : t \in BOOLEAN}

\* request interceptors, retry and timeout: the whole of request()
NextPipeline ==
  \/ UseRequest \/ EjectRequest \/ ClearRequest
  \/ StartCall(PipelineOptions) \/ RequestStep \/ RequestDone \/ Execute
  \/ FetchResponds \/ FetchFails \/ FetchAborted \/ ResponseDone \/ RecoverDone
  \/ Thrown \/ Tick \/ WaitDone \/ TimeoutFires \/ Finish

SpecPipeline == Init /\ [][NextPipeline]_vars

HookCallOptions ==
  {[method |-> "GET", retry |-> rt, cancelable |-> FALSE, hasSignal |-> FALSE,
    timeout |-> FALSE, cancelToken |-> FALSE] : rt \in {RetryUndefined, RetryNumber(3)}}

\* the three hooks, without transform
HookConfigs == {c \in ClientConfigs : ~c.transformResponse}

\* hooks, request interceptors and retry
NextHookCalls ==
  \/ createClient(HookConfigs) \/ UseRequest
  \/ StartCall(HookCallOptions) \/ RequestStep \/ RequestDone \/ Execute
  \/ FetchResponds \/ FetchFails \/ ResponseDone \/ RecoverDone
  \/ Thrown \/ Tick \/ WaitDone \/ Finish

SpecHookCalls == Init /\ [][NextHookCalls]_vars

\* request interceptors registered and removed between calls and during a
\* dispatch, no retry
NextSnapshot ==
  \/ UseRequest \/ EjectRequest \/ ClearRequest
  \/ UseRequestInDispatch \/ EjectRequestInDispatch \/ ClearRequestInDispatch
  \/ StartCall(RequestOptions) \/ RequestStep \/ RequestDone \/ Execute
  \/ FetchResponds \/ FetchFails \/ ResponseDone \/ RecoverDone \/ Thrown \/ Finish

SpecSnapshot == Init /\ [][NextSnapshot]_vars

\* two clients: the origin's request interceptors, clone / extend, the derived
\* client's request interceptors
NextClone ==
  \/ UseRequest \/ EjectRequest \/ ClearRequest
  \/ extend(ExtendConfigs) \/ clone \/ DropDerived
  \/ UseDerived \/ EjectDerived \/ ClearDerived

SpecClone == Init /\ [][NextClone]_vars

RateLimitOptions ==
  {[method |-> "GET", retry |-> rt, cancelable |-> FALSE, hasSignal |-> FALSE,
    timeout |-> FALSE, cancelToken |-> FALSE] :
     rt \in {RetryNumber(3)} \cup {RetryObject(3, 1, b, 30, FALSE) : b \in {"linear", "exponential"}}}

\* retries of answers with a Retry-After header
NextRateLimit ==
  \/ StartCall(RateLimitOptions) \/ RequestDone \/ Execute
  \/ FetchResponds \/ FetchRateLimited \/ FetchFails \/ ResponseDone
  \/ RecoverDone \/ Thrown \/ Tick \/ WaitDone \/ Finish

SpecRateLimit == Init /\ [][NextRateLimit]_vars

TokenOptions ==
  {[method |-> "GET", retry |-> rt, cancelable |-> FALSE, hasSignal |-> hs,
    timeout |-> FALSE, cancelToken |-> ct] :
     rt \in {RetryUndefined, RetryNumber(2)}, hs \in BOOLEAN, ct \in BOOLEAN}

\* calls made with a cancelToken and / or a signal
NextToken ==
  \/ StartCall(TokenOptions) \/ RequestDone \/ Execute
  \/ FetchResponds \/ FetchFails \/ FetchAborted \/ ResponseDone
  \/ RecoverDone \/ Thrown \/ Tick \/ WaitDone \/ UserAbort \/ SourceCancel \/ Finish

SpecToken == Init /\ [][NextToken]_vars

\* hooks, transform and request interceptors, no retry
NextHooks ==
  \/ createClient(ClientConfigs) \/ UseRequest
  \/ StartCall(RequestOptions) \/ RequestStep \/ RequestDone \/ Execute \/ PrepareFails
  \/ FetchResponds \/ FetchFails \/ ResponseDone \/ RecoverDone \/ Thrown \/ Finish

SpecHooks == Init /\ [][NextHooks]_vars

\* request interceptors, no retry
NextRequest ==
  \/ UseRequest \/ EjectRequest \/ ClearRequest
  \/ StartCall(RequestOptions) \/ RequestStep \/ RequestDone \/ Execute
  \/ FetchResponds \/ FetchFails \/ ResponseDone \/ RecoverDone \/ Thrown \/ Finish

SpecRequest == Init /\ [][NextRequest]_vars

\* response interceptors and retry
NextResponse ==
  \/ UseResponse \/ EjectResponse \/ ClearResponse
  \/ StartCall(ResponseOptions) \/ RequestDone \/ Execute
  \/ FetchResponds \/ FetchFails \/ ResponseStep \/ ResponseDone
  \/ RecoverStep \/ RecoverDone \/ Thrown \/ Tick \/ WaitDone \/ Finish

SpecResponse == Init /\ [][NextResponse]_vars

\* retry policies and cancellation, no interceptors
NextRetry ==
  \/ StartCall(RetryOptions) \/ RequestDone \/ Execute
  \/ FetchResponds \/ FetchFails \/ FetchAborted \/ ResponseDone
  \/ RecoverDone \/ Thrown \/ Tick \/ WaitDone \/ UserAbort \/ Cancel \/ TimeoutFires
  \/ Finish

SpecRetry == Init /\ [][NextRetry]_vars

OutcomeOptions ==
  {[method |-> "GET", retry |-> rt, cancelable |-> FALSE, hasSignal |-> hs,
    timeout |-> FALSE, cancelToken |-> FALSE] :
     rt \in {RetryUndefined, RetryNumber(0), RetryNumber(MaxLimit)},
     hs \in BOOLEAN}

\* request interceptors, retry and the caller's signal
NextOutcome ==
  \/ UseRequest
  \/ StartCall(OutcomeOptions) \/ RequestStep \/ RequestDone \/ Execute
  \/ FetchResponds \/ FetchFails \/ FetchAborted \/ ResponseDone \/ RecoverDone
  \/ Thrown \/ Tick \/ WaitDone \/ UserAbort \/ Finish

\* the steps the event loop takes for a call: the continuation of every await,
\* the settling of fetch, the delay timer
CallStep ==
  \/ RequestStep \/ RequestDone \/ Execute
  \/ FetchResponds \/ FetchFails \/ FetchAborted \/ ResponseDone \/ RecoverDone
  \/ Thrown \/ Tick \/ WaitDone

\* the transport and the handlers terminate, a pending continuation is run
SpecOutcome == Init /\ [][NextOutcome]_vars /\ WF_vars(CallStep)

TypeOK ==
  /\ pc \in {"idle", "request", "execute", "fetch", "response", "recover", "thrown", "wait", "done"}
  /\ reqNextId \in 0..MaxIds /\ resNextId \in 0..MaxIds
  /\ Len(reqHandlers) <= MaxIds /\ Len(resHandlers) <= MaxIds
  /\ attempt \in 0..MaxLimit
  /\ Len(sent) <= MaxLimit + 1
  /\ result.state \in {"pending", "resolved", "rejected"}

\* ================================================================= claims
Fulfilled(l) == SelectSeq(l, LAMBDA e : e.fn = "fulfilled")
WithFulfilled(hs) == SelectSeq(hs, LAMBDA h : h.fulfilled)
Ids(l) == [k \in 1..Len(l) |-> l[k].id]
\* every entry received what the entry before it left
Chained(l) == \A k \in 2..Len(l) : l[k].arg = l[k - 1].out
\* entries of log made by applyResponseInterceptors / by applyErrorInterceptors
ResponsePhase(l) == SelectSeq(l, LAMBDA e : e.arg # NoResponse)
ErrorPhase(l) == SelectSeq(l, LAMBDA e : e.arg = NoResponse)
\* the call resolved out of the response phase, no failure was recovered
ResolvedPlainly ==
  pc = "done" /\ result.state = "resolved" /\ ErrorPhase(log) = << >>

\* ---- C1 (SpecRetry).  A call with retry limit L >= 1 and a retryable method
\* whose attempts all fail with a retryable error (not CANCELED, no status or a
\* retryable status, no custom predicate, signal not fired) is rejected only
\* after L + 1 transport invocations.
C1_RetriesUpToLimit ==
  LET cfg == normalizeRetryConfig(opts.retry) IN
    ( /\ pc = "done" /\ result.state = "rejected"
      /\ cfg.limit >= 1
      /\ opts.method \in cfg.methods
      /\ ~cfg.hasCondition
      /\ ~signal.aborted
      /\ result.error.code # "ERR_CANCELED"
      /\ (result.error.status = NoStatus \/ result.error.status \in cfg.statusCodes) )
    => Len(sent) = cfg.limit + 1

\* ---- C2 (SpecRetry).  A transport attempt that ends because the call's
\* cancellation handle fired fails with kind CANCELED; once the handle has
\* fired after a send no further send is made; the call rejected for the
\* handle's firing rejects with a CANCELED error.
C2_CanceledNeverRetried ==
  [][ /\ (pc = "fetch" /\ signal.aborted /\ pc' # "fetch")
           => caught'.code = "ERR_CANCELED"
      /\ (signal.aborted /\ Len(sent) >= 1) => Len(sent') <= Len(sent)
      /\ (pc' = "done" /\ result'.state = "rejected"
            /\ result'.error.src \in {AbortError.message, CancelReason.message})
           => result'.error.code = "ERR_CANCELED" ]_vars

\* ---- C3 (SpecRetry).  When the signal fires while the retry engine waits
\* (the attempt had failed for another reason), no more of the delay elapses:
\* the next thing the call does is reject with the error that started the
\* wait, without another send.
C3_AbortEndsWaitAtOnce ==
  [][ (pc = "wait" /\ signal.aborted
         /\ requestError.src \notin {AbortError.message, CancelReason.message})
        => \/ (pc' = "wait" /\ waitLeft' = waitLeft)
           \/ (pc' = "done" /\ result' = Rejected(requestError) /\ sent' = sent) ]_vars

\* ---- C4 (SpecRequest).  No send happens while request handlers are still
\* running, and when the transport has been invoked every registered request
\* handler with a fulfilled function ran, in registration order, each on the
\* Descriptor the previous one left; the send used the final Descriptor.
C4_RequestHandlersBeforeSend ==
  /\ pc = "request" => sent = << >>
  /\ sent # << >> =>
       /\ Ids(Fulfilled(reqLog)) = Ids(WithFulfilled(reqHandlers))
       /\ Chained(reqLog)
       /\ reqLog # << >> => /\ reqLog[1].arg = mergeConfig
                            /\ config = reqLog[Len(reqLog)].out
       /\ sent[1] = config.url

\* two request handlers ran in order 0, 1 and the transport was invoked
C4_Witness ==
  /\ Len(sent) = 1
  /\ Len(reqLog) = 2
  /\ reqLog[1].id = 0 /\ reqLog[1].ret = "return"
  /\ reqLog[2].id = 1 /\ reqLog[2].ret = "return"

\* ---- C5 (SpecResponse).  In every attempt the fulfilled functions of the
\* response handlers are invoked last-registered first, each on the Envelope
\* the one before left; a call that resolves out of the response phase
\* invoked all of them, in exactly the reverse registration order, starting
\* from the transport's response, and resolves with the last Envelope.
C5_ResponseFulfilledReverseOrder ==
  LET P == ResponsePhase(log)
      F == Fulfilled(P)
  IN /\ \A k \in 1..(Len(F) - 1) : F[k].id > F[k + 1].id
     /\ Chained(P)
     /\ ResolvedPlainly =>
          /\ Ids(F) = Reverse(Ids(WithFulfilled(resHandlers)))
          /\ P # << >> => /\ P[1].arg.from = 0
                          /\ result.response = P[Len(P)].out

\* two response handlers ran in order 1, 0 and the call resolved
C5_Witness ==
  /\ ResolvedPlainly
  /\ Len(log) = 2
  /\ log[1].id = 1 /\ log[1].ret = "return"
  /\ log[2].id = 0 /\ log[2].ret = "return"
  /\ result.response.marks = <<1, 0>>

\* ---- C6 (SpecRequest).  When a request handler's fulfilled throws and its
\* rejected returns a Descriptor (directly or through a promise), that
\* Descriptor becomes the current one: the next handler that runs is a
\* later-registered one and receives it, every later-registered handler with
\* a fulfilled function runs before the send, and the transport is invoked
\* with the URL of the (last) patched Descriptor.
C6_RequestRecoveryResumes ==
  \A k \in 1..Len(reqLog) :
    (reqLog[k].fn = "rejected" /\ reqLog[k].ret \in {"descriptor", "promiseDescriptor"}) =>
      /\ reqLog[k].out = recoveredConfig(reqLog[k].arg, reqLog[k].id)
      /\ k < Len(reqLog) => /\ reqLog[k + 1].arg = reqLog[k].out
                            /\ reqLog[k + 1].id > reqLog[k].id
      /\ k = Len(reqLog) => /\ config = reqLog[k].out
                            /\ result.state # "rejected" \/ sent # << >>
      /\ sent # << >> =>
           /\ \A j \in 1..Len(reqHandlers) :
                (reqHandlers[j].id > reqLog[k].id /\ reqHandlers[j].fulfilled)
                  => \E m \in (k + 1)..Len(reqLog) :
                       reqLog[m].fn = "fulfilled" /\ reqLog[m].id = reqHandlers[j].id
           /\ (\A m \in (k + 1)..Len(reqLog) : reqLog[m].fn = "fulfilled")
                => sent[1] = reqLog[k].out.url

\* handler 0 threw, its rejected returned a promise of a patched Descriptor,
\* handler 1 ran on it and the transport saw the patched URL
C6_Witness ==
  /\ Len(sent) = 1
  /\ Len(reqLog) = 3
  /\ reqLog[1].ret = "throw"
  /\ reqLog[2].fn = "rejected" /\ reqLog[2].ret = "promiseDescriptor" /\ reqLog[2].id = 0
  /\ reqLog[3].fn = "fulfilled" /\ reqLog[3].id = 1
  /\ sent[1] = 1

\* ---- C7 (SpecRequest).  When a request handler's fulfilled throws and the
\* handler has no rejected function, or rejected throws, or rejected returns
\* something that is not a Descriptor, nothing else of the request phase
\* runs, the transport is never invoked and the call is rejected with the
\* error: the one rejected threw, else the one made of fulfilled's exception.
C7_RequestPhaseAborts ==
  \A k \in 1..Len(reqLog) :
    LET e == reqLog[k]
        h == CHOOSE x \in {handlers[j] : j \in 1..Len(handlers)} : x.id = e.id
        unrecovered ==
          /\ e.fn = "fulfilled" /\ e.ret = "throw"
          /\ \/ ~h.rejected
             \/ k < Len(reqLog) /\ reqLog[k + 1].ret \in {"other", "promiseOther", "throw"}
    IN unrecovered =>
         /\ Len(reqLog) = IF h.rejected THEN k + 1 ELSE k
         /\ pc = "done" /\ result.state = "rejected"
         /\ sent = << >>
         /\ result.error =
              IF h.rejected /\ reqLog[k + 1].ret = "throw"
                THEN createInterceptorError_request("request.rejected", e.id)
                ELSE createInterceptorError_request("request.fulfilled", e.id)

\* handler 0 threw, its rejected returned a non-Descriptor, handler 1 never ran
C7_Witness ==
  /\ pc = "done" /\ result.state = "rejected"
  /\ Len(handlers) = 2 /\ handlers[2].fulfilled
  /\ Len(reqLog) = 2
  /\ reqLog[1].id = 0 /\ reqLog[1].ret = "throw"
  /\ reqLog[2].fn = "rejected" /\ reqLog[2].ret = "other"

C9_ErrorRecoveryResolves ==
  \A k \in 1..Len(log) :
    (log[k].arg = NoResponse /\ log[k].ret \in {"response", "promiseResponse"}) =>
      /\ k = Len(log)
      /\ pc = "done"
      /\ result.state = "resolved"
      /\ result.response = log[k].out
      /\ log[k].out.from = log[k].id + 1
      /\ Len(sent) = log[k].err.att

\* a network failure of the first attempt of a call with retries left was
\* recovered by the last-registered handler; the first-registered one, which
\* has a rejected function too, was not consulted
C9_Witness ==
  /\ pc = "done" /\ result.state = "resolved"
  /\ normalizeRetryConfig(opts.retry).limit >= Len(sent) + 1
  /\ Len(sent) = 1
  /\ Len(reversed) = 2 /\ reversed[2].rejected
  /\ Len(log) = 1
  /\ log[1].id = 1 /\ log[1].ret = "promiseResponse"
  /\ log[1].err.code = "ERR_NETWORK"

\* ---- C10 (SpecResponse).  In applyErrorInterceptors a rejected function
\* that throws a new error replaces the error the next rejected function
\* receives, any other outcome leaves it; when the dispatch ends unrecovered
\* the error thrown on to the retry engine (and then to the caller) is the
\* final error of the dispatch.
C10_FinalErrorIsThrown ==
  LET E == ErrorPhase(log) IN
    /\ \A k \in 1..(Len(E) - 1) :
         E[k + 1].err = IF E[k].ret = "throwNew"
                          THEN createInterceptorError_response(
                                 NoResponse, "error.rejected", E[k].id, Len(sent))
                          ELSE E[k].err
    /\ pc = "thrown" => caught = error

\* the normalized retry policy of the call in progress
Policy == normalizeRetryConfig(opts.retry)
Last(l) == l[Len(l)]

Delays == [k \in 1..Len(SelectSeq(retryLog, LAMBDA d : d.retry)) |->
             SelectSeq(retryLog, LAMBDA d : d.retry)[k].delay]

\* ---- C16 (SpecRetry).  The sequence of delays computed during one call has
\* length <= limit, every element is <= the cap, it is non-decreasing under
\* exponential backoff and constant, every delay the base delay, under linear
\* backoff.
C16_DelaySequence ==
  /\ Len(Delays) <= Policy.limit
  /\ \A k \in 1..Len(Delays) : Delays[k] <= Policy.maxDelay
  /\ Policy.backoff = "exponential" =>
       \A k \in 1..(Len(Delays) - 1) : Delays[k] <= Delays[k + 1]
  /\ Policy.backoff = "linear" =>
       \A k \in 1..Len(Delays) : Delays[k] = Policy.delay

\* ---- C17 (SpecRetry).  onRetry is invoked exactly once for each 'retry'
\* decision, before the wait, with the attempt number, the error of the
\* attempt that just failed and the call's Descriptor; the numbers are 1, 2,
\* 3, ...; it is not invoked for a 'no' nor when the first attempt succeeds.
C17_OnRetryCallback ==
  /\ \A k \in 1..Len(retryLog) :
       LET d == retryLog[k] IN
         /\ d.attempt = k
         /\ d.error.att = k
         /\ d.onRetry = IF d.retry
                          THEN <<[attempt |-> k, error |-> d.error, config |-> config]>>
                          ELSE << >>
  /\ pc = "wait" => /\ Last(retryLog).onRetry # << >>
                    /\ Last(retryLog).onRetry[1].error = requestError
  /\ (pc = "fetch" /\ Policy.limit > 0) =>
       Len(SelectSeq(retryLog, LAMBDA d : d.onRetry # << >>)) = Len(sent) - 1
  /\ (pc = "done" /\ Len(sent) = 1 /\ result.state = "resolved") => retryLog = << >>

\* two retries announced with attempt numbers 1 and 2, then a 'no'
C17_Witness ==
  /\ Len(retryLog) = 3
  /\ retryLog[1].onRetry # << >> /\ retryLog[1].onRetry[1].attempt = 1
  /\ retryLog[2].onRetry # << >> /\ retryLog[2].onRetry[1].attempt = 2
  /\ retryLog[3].onRetry = << >>
  /\ pc = "done"

\* ---- C12 (SpecRetry).  The kind of the error a failed attempt produces
\* follows the cause: TIMEOUT when the deadline elapsed, CANCELED when the
\* cancellation handle fired (the caller's signal or the cancelable pair's
\* cancel()), NETWORK for any other failure without response, BAD_RESPONSE
\* for a status >= 500 that fails validation, BAD_REQUEST for one < 500.
C12_KindFollowsCause ==
  [][ /\ (pc = "fetch" /\ pc' = "recover") =>
           caught'.code = IF ~signal.aborted THEN "ERR_NETWORK"
                          ELSE IF signal.reason = TimeoutReason THEN "ERR_TIMEOUT"
                          ELSE "ERR_CANCELED"
      /\ (pc = "response" /\ pc' = "recover") =>
           caught'.code = IF response.status >= 500 THEN "ERR_BAD_RESPONSE"
                                                    ELSE "ERR_BAD_REQUEST" ]_vars

\* the kinds of the error taxonomy
Kinds == {"ERR_NETWORK", "ERR_TIMEOUT", "ERR_CANCELED", "ERR_BAD_REQUEST", "ERR_BAD_RESPONSE"}
WithRejected(hs) == SelectSeq(hs, LAMBDA h : h.rejected)

\* ---- C13 (SpecResponse).  Every error handed to a reject function of a
\* response handler, and the error an attempt throws to the retry engine, has
\* its kind set and carries a status iff a response was received from the
\* transport in that attempt.
C13_StatusIffResponse ==
  /\ \A k \in 1..Len(log) :
       log[k].fn = "rejected" =>
         /\ log[k].err.code \in Kinds
         /\ log[k].err.status # NoStatus <=> response # NoResponse
  /\ pc = "thrown" =>
       /\ caught.code \in Kinds
       /\ caught.status # NoStatus <=> response # NoResponse

\* ---- C18 (SpecResponse).  Status validation comes before the response
\* interceptors: the fulfilled function of a response handler is only ever
\* given a transport response whose status passed validation.
C18_ValidationBeforeInterceptors ==
  \A k \in 1..Len(log) :
    (log[k].fn = "fulfilled" /\ log[k].arg.from = 0) => isSuccessStatus(log[k].arg.status)

\* ---- C20 (SpecResponse).  The attempts of a call are strictly sequential:
\* while attempt N is sent or its interceptors run, exactly N-1 retry
\* decisions have been taken, and attempt N+1 is only at hand once decision N
\* is taken; when decision N is taken the dispatches of attempt N are over:
\* the response handlers' functions ran in reverse registration order, all
\* fulfilled functions when the attempt failed validation, all rejected
\* functions of the error dispatch.
C20_AttemptsSequential ==
  /\ (Policy.limit > 0 /\ pc \in {"fetch", "response", "recover", "thrown"}) =>
       /\ attempt = Len(sent) - 1
       /\ Len(retryLog) = Len(sent) - 1
  /\ (Policy.limit > 0 /\ pc \in {"wait", "execute"} /\ sent # << >>) =>
       /\ attempt = Len(sent)
       /\ Len(retryLog) = Len(sent)
  /\ \A k \in 1..Len(retryLog) : retryLog[k].error.att = k
  /\ pc = "thrown" =>
       /\ idx > Len(reversed)
       /\ Ids(reversed) = Reverse(Ids(resHandlers))
       /\ \A k \in 1..(Len(Fulfilled(log)) - 1) :
            Fulfilled(log)[k].id > Fulfilled(log)[k + 1].id
       /\ caught.src = "status" =>
            Ids(Fulfilled(log)) = Reverse(Ids(WithFulfilled(resHandlers)))
       /\ Ids(ErrorPhase(log)) = Reverse(Ids(WithRejected(resHandlers)))

\* the second attempt of a call failed validation after both response handlers
\* ran on it, the error dispatch visited both, and the decision is at hand
C20_Witness ==
  /\ pc = "thrown"
  /\ Len(sent) = 2 /\ Len(retryLog) = 1
  /\ caught.src = "status"
  /\ Ids(Fulfilled(log)) = <<1, 0>>
  /\ Ids(ErrorPhase(log)) = <<1, 0>>

\* ---- C19 (SpecPipeline).  Merge, request-interceptor dispatch and timeout
\* composition happen once per call however many attempts are made: after the
\* first send the Descriptor, the record of request handlers run and the
\* composed signal (but for its firing) no longer change, no request handler
\* has run twice, and every attempt is sent to the Descriptor's URL.
C19_PreparedOnce ==
  [][ /\ (sent # << >> /\ pc # "done") =>
           /\ config' = config
           /\ reqLog' = reqLog
           /\ handlers' = handlers
           /\ signal'.present = signal.present
           /\ signal.aborted => signal'.aborted
           /\ signal'.timer => signal.timer
      /\ \A k \in 1..Len(sent') : sent'[k] = config'.url
      /\ \A j, k \in 1..Len(reqLog') :
           (j # k /\ reqLog'[j].fn = reqLog'[k].fn) => reqLog'[j].id # reqLog'[k].id
      /\ reqLog' # << >> => reqLog'[1].arg = mergeConfig ]_vars

\* three attempts of one call went to the URL a request handler had patched,
\* under a timeout, after two request handlers ran once each
C19_Witness ==
  /\ Len(sent) = 3
  /\ sent[1] = 1 /\ sent[2] = 1 /\ sent[3] = 1
  /\ opts.timeout
  /\ Len(Fulfilled(reqLog)) = 2


\* ---- C11 (SpecHooks).  Every rejection of a client call is an Error Record,
\* an error of the library with one of its kinds, whichever stage failed: the
\* onRequest hook, a request handler, request preparation, the transport, the
\* onResponse hook, a response handler, status validation or the decoding and
\* transform of the response.
C11_RejectionIsErrorRecord ==
  (pc = "done" /\ result.state = "rejected") => result.error.code \in Kinds


\* the signal of the call has been composed (lines 284-298 have run)
Composed ==
  \/ pc \in {"execute", "fetch", "response", "recover", "thrown", "wait"}
  \/ pc = "done" /\ sent # << >>
\* the timeout timer of the call has fired
TimerFired == opts.timeout /\ ~signal.timer

C22_TimeoutAndNetworkRetried ==
  ( /\ pc = "done" /\ result.state = "rejected"
    /\ retryLog # << >>
    /\ Last(retryLog).error.code \in {"ERR_TIMEOUT", "ERR_NETWORK"}
    /\ Last(retryLog).error.status = NoStatus
    /\ ~userAborted /\ ~opts.cancelable )
  => ~Last(retryLog).retry


\* ---- C23 (SpecRetry).  In a call made with the cancelable flag, cancel()
\* during the transport send aborts the send and the attempt fails with an
\* error of kind CANCELED, which the retry engine does not retry.
C23_CancelGivesCanceled ==
  [][ (opts.cancelable /\ pc = "fetch" /\ signal.aborted /\ pc' = "recover") =>
        /\ caught'.code = "ERR_CANCELED"
        /\ ~shouldRetry(caught', attempt + 1, Policy, opts.method, TRUE) ]_vars


\* ---- C24 (SpecToken).  A call made with a cancelToken is aborted when the
\* source's cancel() is invoked while it is pending: once the source is
\* cancelled the transport send can only end aborted, with an error of code
\* ERR_CANCELED.
C24_CancelTokenAborts ==
  [][ (opts.cancelToken /\ tokenCanceled /\ pc = "fetch" /\ pc' # "fetch") =>
        (pc' = "recover" /\ caught'.code = "ERR_CANCELED") ]_vars


\* the calls of hook h made by the call in progress
HookCalls(h) == SelectSeq(hookLog, LAMBDA e : e.hook = h)

\* ---- C25 (SpecHookCalls).  The onError hook fires exactly once in a call
\* that ends rejected, whichever stage failed, and not at all in a call that
\* ends resolved, also when it resolved only after retries.
C25_OnErrorOncePerFailedCall ==
  (pc = "done" /\ defaults.onError) =>
    Len(HookCalls("onError")) = IF result.state = "rejected" THEN 1 ELSE 0


\* the transport attempts the call in progress has made
Attempts == Len(sent)

DerivedRequest == listDerived(derived.request, reqHandlers)
\* list d holds the functions of the handlers of list o, in the order of o
CopyOf(d, o) ==
  /\ Len(d) = Len(o)
  /\ \A k \in 1..Len(o) :
       d[k].of = o[k].id /\ d[k].fulfilled = o[k].fulfilled /\ d[k].rejected = o[k].rejected

C29_ManagerInvariants ==
  [][ /\ \A j, k \in 1..Len(reqHandlers') : j < k => reqHandlers'[j].id < reqHandlers'[k].id
      /\ \A k \in 1..Len(reqHandlers') : reqHandlers'[k].id < reqNextId'
      /\ size(reqHandlers') = Len(getHandlers(reqHandlers'))
      /\ reqNextId' # reqNextId =>
            /\ reqNextId' = reqNextId + 1
            /\ Len(reqHandlers') = Len(reqHandlers) + 1
            /\ SubSeq(reqHandlers', 1, Len(reqHandlers)) = reqHandlers
            /\ Last(reqHandlers').id = reqNextId
      /\ reqNextId' = reqNextId =>
            \A k \in 1..Len(reqHandlers') : \E j \in 1..Len(reqHandlers) : reqHandlers'[k] = reqHandlers[j]
      /\ \A id \in 0..MaxIds :
            (\A k \in 1..Len(reqHandlers') : reqHandlers'[k].id # id) =>
               eject(reqHandlers', id) = reqHandlers' ]_vars

\* two handlers were registered and the first removed: the one left has the
\* second id, and the next id is the third
C29_Witness ==
  /\ pc = "idle" /\ reqNextId = 2
  /\ size(reqHandlers) = 1 /\ reqHandlers[1].id = 1


\* ---- C30 (SpecRateLimit).  When the failure the retry engine decides to
\* retry is a 429 answer with a Retry-After header, the wait it starts is at
\* least as long as the header asks.
C30_RetryAfterRespected ==
  [][ ( /\ pc = "thrown" /\ pc' = "wait"
        /\ caught.status = 429
        /\ getRetryAfterDelay(response) # NoRetryAfter )
      => waitLeft' >= getRetryAfterDelay(response) ]_vars

\* C38: a call made with the cancelable flag and with a signal of the caller
\* is aborted by either: once the caller's AbortController has fired, the
\* signal the transport is sent with is aborted
C38_BothHandlesAbort ==
  ( /\ opts.cancelable /\ opts.hasSignal
    /\ userAborted
    /\ pc \in {"execute", "fetch", "response", "recover", "thrown", "wait"} )
  => signal.aborted

\* the calls of the rejected function of handler id since the last transport send
RejectedCalls(id) == {i \in DOMAIN log : log[i].fn = "rejected" /\ log[i].id = id}

\* C37: while one attempt is handled, the rejected function of a response
\* handler is invoked at most once
C37_RejectedOncePerAttempt ==
  \A id \in 0..MaxIds : Cardinality(RejectedCalls(id)) <= 1

\* the call was rejected by applyRequestInterceptors, before withRetry was entered
RejectedInRequestPhase ==
  /\ result.state = "rejected"
  /\ result.error.src \in {"request.fulfilled", "request.rejected"}

\* the calls of onRetry made by the call
OnRetryCalls == {i \in DOMAIN retryLog : retryLog[i].onRetry # << >>}

\* the promise of the call is settled once: a settled result is not changed
\* until the call's state is dropped
SettledOnce ==
  [][ result.state # "pending" => (result' = result \/ pc' = "idle") ]_vars

\* sends never exceed limit + 1; a finished call is resolved or rejected; with
\* limit 0 a call that entered withRetry has sent exactly once, onRetry is not called
OutcomeAndSends ==
  LET cfg == normalizeRetryConfig(opts.retry) IN
    /\ Len(sent) <= cfg.limit + 1
    /\ (pc = "done") = (result.state \in {"resolved", "rejected"})
    /\ cfg.limit = 0 =>
         /\ Len(sent) <= 1
         /\ OnRetryCalls = {}
         /\ pc = "done" => (Len(sent) = 1 \/ (sent = << >> /\ RejectedInRequestPhase))

StateWrites == {e \in effects : e.what \in {"start", "outcome", "reset"}}

\* C31: no hook writes its state after the component was unmounted: every
\* setState happens with mountedRef.current true
C31_NoWriteAfterTeardown == \A e \in StateWrites : e.mounted

\* what reaches the user of an error: the error state and the onError / onSettled callbacks
Surfaced == {e \in effects : e.what \in {"outcome", "onError", "onSettled"}}

\* C32: the ERR_CANCELED error of a request the hook aborted itself (unmount,
\* reset, a newer run) is not written to the error state and not passed to
\* onError or onSettled
C32_OwnCancelNotSurfaced == \A e \in Surfaced : e.code # "ERR_CANCELED"

\* the runs whose request is pending and whose signal is not aborted
Live == {i \in DOMAIN runs : InFlight(runs[i]) /\ ~runs[i].aborted}

\* C33: a new fetch of useQuery, or the unmount, aborts the fetch in flight: at
\* most one fetch that is not aborted is in flight, and the outcome of an
\* aborted (superseded) fetch is not written to data or error
C33_SupersededNeverWritten ==
  /\ Cardinality(Live) <= 1
  /\ \A e \in effects : e.what = "outcome" => ~e.aborted

\* C39: a retry timer of useQuery that fires after the unmount starts no fetch
C39_NoFetchAfterTeardown ==
  [][ (~mountedRef /\ Len(retryTimers') < Len(retryTimers)) => runs' = runs ]_vars

\* C40: a mutateAsync made while an earlier one is in flight aborts the
\* earlier request, and only the latest run writes its outcome to the state
C40_LatestMutationWins ==
  /\ \A i \in DOMAIN runs :
       (i < Len(runs) /\ runs[i].at = "fetch") => (runs[i].connected /\ runs[i].aborted)
  /\ \A e \in effects : e.what = "outcome" => e.latest

\* C34: fetchNextPage / fetchPreviousPage start no request while a fetch of
\* the same direction is in flight, and no cursor is in the pages twice
C34_OneFetchPerDirection ==
  /\ \A e \in effects :
       (e.what = "send" /\ runs[e.run].dir \in {"next", "previous"}) => ~e.busy
  /\ \A i, j \in DOMAIN state.pages : state.pages[i] = state.pages[j] => i = j

\* a run of direction dir starts, or its await returns, in this step
Moves(dir) ==
  \/ Len(runs') = Len(runs) + 1 /\ runs'[Len(runs')].dir = dir
  \/ \E i \in DOMAIN runs :
       runs[i].dir = dir /\ runs[i].at # "settled" /\ runs'[i].at = "settled"

\* C35: the two flags of useInfiniteQuery are independent: a start, success
\* or failure of a fetch of one direction leaves the flag of the other one as it is
C35_FlagsIndependent ==
  [][ /\ Moves("next") => state'.isFetchingPreviousPage = state.isFetchingPreviousPage
      /\ Moves("previous") => state'.isFetchingNextPage = state.isFetchingNextPage ]_vars

====
